---- MODULE Spec2Model ----
(***************************************************************************)
(* Discrete-event model of algal symbionts colonising a grid of host cells *)
(* (event_list.py, sponge.py, symbiont.py).                                *)
(*                                                                         *)
(* Python floats are modelled as exact rationals <<n, d>> in lowest terms  *)
(* with d > 0; float('inf') (parameters.py INFINITY) is <<1, 0>>.  None is *)
(* the string "None"; a Symbiont reference is the index of the object in   *)
(* the sequence `symbionts` (0 for None); a Cell reference is its          *)
(* <<row, col>> position (NoCell for None).                                *)
(***************************************************************************)
EXTENDS Integers, Sequences, FiniteSets, TLC

VARIABLES
    heap,        \* EventList._heap: the list heapq keeps as a binary heap
    event_cnt,   \* Event._event_cnt
    symbionts,   \* every Symbiont object created so far, by object reference
    sym_count,   \* Symbiont._count
    cells,       \* Sponge._cells: position -> Cell fields
    clock,       \* the driver's current simulation time
    err,         \* "none", or the exception that aborted the run
    last         \* what the last operation did (observation only)

vars == <<heap, event_cnt, symbionts, sym_count, cells, clock, err, last>>

(* Bounds of the model *)
MaxSymbionts == 3  \* no symbiont is created beyond this many
MaxEvents   == 4   \* events created in the calendar-only specification

\* F applied to the value of e: a local variable holding a computed value
Bind(e, F(_)) == CHOOSE y \in {F(v) : v \in {e}} : TRUE

----------------------------------------------------------------------------
(* Exact rational arithmetic standing for float arithmetic.                *)

Abs(x) == IF x < 0 THEN -x ELSE x

\* a power of two
RECURSIVE IsPowerOfTwo(_)
IsPowerOfTwo(n) == n = 1 \/ (n > 1 /\ n % 2 = 0 /\ IsPowerOfTwo(n \div 2))

RECURSIVE Gcd(_, _)
Gcd(a, b) == IF b = 0 THEN a ELSE Gcd(b, a % b)

Norm(n, d) ==
    IF d = 0 THEN <<1, 0>>
    ELSE LET g == Gcd(Abs(n), Abs(d))
             s == IF d < 0 THEN -1 ELSE 1
         IN  <<s * (n \div g), s * (d \div g)>>

Q(n)       == <<n, 1>>
INFINITY   == <<1, 0>>
IsInf(a)   == a[2] = 0
\* a float holds the rational a exactly (the numerators of the model are small):
\* sums, differences and products of such numbers are computed without rounding
Representable(a) == IsPowerOfTwo(a[2])
RAdd(a, b) == IF IsInf(a) \/ IsInf(b) THEN INFINITY
              ELSE Norm(a[1] * b[2] + b[1] * a[2], a[2] * b[2])
RNeg(a)    == <<-a[1], a[2]>>
RSub(a, b) == RAdd(a, RNeg(b))
RMul(a, b) == Norm(a[1] * b[1], a[2] * b[2])
RDiv(a, b) == Norm(a[1] * b[2], a[2] * b[1])
\* the comparison with the strict test replaced by less-or-equal
RLt_or_equal(a, b) == a[1] * b[2] <= b[1] * a[2]
\* a < b
RLt(a, b)  == a # b /\ a[1] * b[2] < b[1] * a[2]
RLe(a, b)  == a = b \/ RLt(a, b)
RIsZero(a) == a[1] = 0 /\ a[2] # 0

----------------------------------------------------------------------------
(* event_list.py                                                           *)

EventTypes == {"ESCAPE", "DIGESTION", "END_G0", "END_G1SG2M", "DENOUEMENT", "ARRIVAL"}

\* the integer values the EventType enumeration gives its members
EventTypeValue(t) ==
    CASE t = "ESCAPE"     -> 0
      [] t = "DIGESTION"  -> 1
      [] t = "END_G0"     -> 2
      [] t = "END_G1SG2M" -> 3
      [] t = "DENOUEMENT" -> 4
      [] t = "ARRIVAL"    -> 5

\* the value getNextEvent returns for an empty list (Python None)
NoEvent == [time |-> INFINITY, type |-> "None", symbiont |-> 0, event_num |-> -1]

\* Event.__init__: the caller advances Event._event_cnt by one
Event(time, event_type, symbiont, cnt) ==
    [time |-> time, type |-> event_type, symbiont |-> symbiont, event_num |-> cnt]

\* the documented order of events: time, then kind priority, then creation number
KeyLt(a, b) ==
    IF a.time # b.time THEN (IF RLt(a.time, b.time) THEN "True" ELSE "False")
    ELSE IF a.type # b.type
         THEN (IF EventTypeValue(a.type) < EventTypeValue(b.type) THEN "True" ELSE "False")
    ELSE IF a.event_num < b.event_num THEN "True" ELSE "False"

\* Event.__lt__: (time, type, event_num) < (time, type, event_num) on tuples.
\* Tuple comparison looks for the first place where the two differ and applies
\* < there; EventType is a plain Enum, which defines no ordering, so < on two
\* different members raises TypeError.
EventLt(a, b) ==
    IF a.time # b.time THEN (IF RLt(a.time, b.time) THEN "True" ELSE "False")
    ELSE IF a.type # b.type THEN "TypeError"
    ELSE IF a.event_num < b.event_num THEN "True" ELSE "False"

Swap(h, i, j) == [h EXCEPT ![i] = h[j], ![j] = h[i]]

\* heapq._siftdown on 0-based positions; an exception leaves the list as it is
RECURSIVE siftdown(_, _, _)
siftdown(h, startpos, pos) ==
    IF pos <= startpos THEN [heap |-> h, err |-> "none"]
    ELSE LET parentpos == (pos - 1) \div 2
             c == EventLt(h[pos + 1], h[parentpos + 1])
         IN  IF c = "TypeError" THEN [heap |-> h, err |-> "TypeError"]
             ELSE IF c = "True"
                  THEN siftdown(Swap(h, pos + 1, parentpos + 1), startpos, parentpos)
             ELSE [heap |-> h, err |-> "none"]

\* heapq._siftup: bubble the smaller child up to a leaf, then sift down
RECURSIVE siftup_leaf(_, _)
siftup_leaf(h, pos) ==
    LET endpos   == Len(h)
        childpos == 2 * pos + 1
    IN  IF pos >= endpos \div 2 THEN [heap |-> h, pos |-> pos, err |-> "none"]
        ELSE LET c == IF childpos + 1 < endpos
                      THEN EventLt(h[childpos + 1], h[childpos + 2])
                      ELSE "True"
                 smaller == IF c = "True" THEN childpos ELSE childpos + 1
             IN  IF c = "TypeError" THEN [heap |-> h, pos |-> pos, err |-> "TypeError"]
                 ELSE siftup_leaf(Swap(h, pos + 1, smaller + 1), smaller)

siftup(h, pos) ==
    LET r == siftup_leaf(h, pos)
    IN  IF r.err # "none" THEN [heap |-> r.heap, err |-> r.err]
        ELSE siftdown(r.heap, pos, r.pos)

\* heapq.heappush
heappush(h, item) == siftdown(Append(h, item), 0, Len(h))

\* heapq.heappop on a non-empty list
heappop(h) ==
    LET lastelt == h[Len(h)]
        rest    == SubSeq(h, 1, Len(h) - 1)
    IN  IF rest = <<>> THEN [heap |-> rest, ret |-> lastelt, err |-> "none"]
        ELSE LET r == siftup([rest EXCEPT ![1] = lastelt], 0)
             IN  [heap |-> r.heap,
                  ret  |-> IF r.err = "none" THEN rest[1] ELSE NoEvent,
                  err  |-> r.err]

\* EventList.getNextEvent without the length test
getNextEvent_unguarded(h) ==
    IF Len(h) = 0 THEN [heap |-> h, ret |-> NoEvent, err |-> "IndexError"]
    ELSE heappop(h)

\* EventList.getNextEvent
getNextEvent(h) ==
    IF Len(h) > 0 THEN heappop(h)
    ELSE [heap |-> h, ret |-> NoEvent, err |-> "none"]

\* EventList.insertEvent
insertEvent(h, event) == heappush(h, event)

\* EventList.__len__
EventListLen(h) == Len(h)

----------------------------------------------------------------------------
(* Run parameters (parameters.py; the values are read from the input file) *)

NUM_ROWS == 3
NUM_COLS == 1
MAX_SIMULATED_TIME == Q(4)

(* Clade parameters (getters of the symbiont's Clade object)               *)
PPR                     == Q(4)      \* getPPR
PhotosyntheticReduction == Q(2)      \* getPhotosyntheticReduction
MaxInitialSurplus       == Q(2)      \* getMaxInitialSurplus
G0EscapeProb            == <<1, 2>>  \* getG0EscapeProb
G1SG2MEscapeProb        == <<3, 8>>  \* getG1SG2MEscapeProb
ParentEvictionProb      == <<1, 2>>  \* getParentEvictionProb
DivisionAffinityProb    == <<1, 2>>  \* getDivisionAffinityProb
ArrivalAffinityProb     == <<1, 2>>  \* getArrivalAffinityProb

(* What the variate source may return, per use                             *)
Uniform01        == {<<0, 1>>, <<1, 2>>}  \* RNG.uniform(0, 1, .)
UniformFracs     == {<<0, 1>>, <<1, 2>>}            \* RNG.uniform(a, b, .) = a + frac*(b-a)
DemandDraws      == {Q(3), Q(5)}                    \* RNG.fuzz(HOST_CELL_DEMAND, .)
MCRDraws         == {Q(2)}                          \* RNG.fuzz(getMCR(), .)
PPRFuzzFactors   == {Q(1)}                          \* RNG.fuzz(rate, .) / rate
SurplusDraws     == {Q(1), Q(3)}                    \* RNG.gamma(shape, scale, .)
G0Draws          == {Q(1), Q(2)}                    \* RNG.fuzz(getG0Length(), .)
G1SG2MDraws      == {Q(1)}                          \* RNG.fuzz(getG1SG2MLength(), .)
ResidenceDraws   == {<<5, 2>>, Q(3)}                 \* RNG.fuzz(getAvgResidenceTime(), .)
InterarrivalDraws == {<<9, 4>>}                     \* time to the next pool arrival
\* [fuzzamt / value, mutation] of RNG.divfuzz(value, clade, .), per stream
NoMutation       == [frac |-> Q(0), mutation |-> "NO_MUTATION"]
MCRMutDraws      == {NoMutation}
PPRMutDraws      == {NoMutation}
\* the amount of the surplus mutation as a fraction of the half: the variate
\* source bounds it neither by the half nor otherwise
SplitFractions   == {<<1, 2>>, <<3, 2>>, Q(4)}
SurplusMutDraws  ==
    {NoMutation} \cup
    {[frac |-> f, mutation |-> m] : f \in SplitFractions,
                                    m \in {"DELETERIOUS", "BENEFICIAL"}}

\* RNG.divfuzz(value, clade, stream): [fuzzamt, mutation]
divfuzz(value, draw) == [fuzzamt |-> RMul(value, draw.frac), mutation |-> draw.mutation]

\* RNG.uniform(low, high, stream)
uniform(low, high, frac) == RAdd(low, RMul(frac, RSub(high, low)))

----------------------------------------------------------------------------
(* sponge.py                                                               *)

Positions == (0 .. NUM_ROWS - 1) \X (0 .. NUM_COLS - 1)
NoCell    == <<-1, -1>>   \* a Symbiont's _cell when it is None
NoneTime  == <<0, 0>>     \* a time result that is None

\* Cell.__init__
Cell(demand) ==
    [demand |-> demand, occupied |-> FALSE, symbiont |-> 0,
     last_occupied_time |-> INFINITY]

\* Cell.removeSymbiont
removeSymbiont(cell, current_time) ==
    IF cell.last_occupied_time = INFINITY
    THEN [cell |-> [cell EXCEPT !.symbiont = 0, !.occupied = FALSE],
          err  |-> "AssertionError"]
    ELSE [cell |-> [cell EXCEPT !.symbiont = 0, !.occupied = FALSE,
                                !.last_occupied_time = INFINITY],
          err  |-> "none"]

\* setSymbiont without the assignment of the symbiont
setSymbiont_no_symbiont(cell, symbiont, current_time) ==
    [cell EXCEPT !.occupied = TRUE, !.last_occupied_time = current_time]

\* Cell.setSymbiont
setSymbiont(cell, symbiont, current_time) ==
    [cell EXCEPT !.symbiont = symbiont, !.occupied = TRUE,
                 !.last_occupied_time = current_time]

\* Sponge.getCell: the bounds test that raises ValueError
getCellRaisesIn(num_rows, num_cols, row, col) ==
    row < 0 \/ row >= num_rows \/ col < 0 \/ col >= num_cols

\* Sponge.getCell in the sponge of the run
getCellRaises(row, col) == getCellRaisesIn(NUM_ROWS, NUM_COLS, row, col)

----------------------------------------------------------------------------
(* symbiont.py: the Symbiont object.  The per-symbiont lists kept only for *)
(* the CSV output (_cells_inhabited, _inhabit_times, _g0_times, ...) and   *)
(* the cells' residence statistics are not part of the model.              *)

\* what _computeSurplusAtEventEnd returns, the error it raises, and whether
\* it drew the escape-vs-digestion coin
SurplusResult(surplus, t_d, t_ee, coin, e) ==
    [surplus_at_end |-> surplus, t_d |-> t_d, t_ee |-> t_ee, coin |-> coin, err |-> e]

\* the expended photosynthate with the mitotic cost charged in every state
expended_in_every_state(s, time_diff, state) == RMul(time_diff, s.mitotic_cost_rate)

\* the expended photosynthate with the mitotic cost charged in no state
expended_in_no_state(s, time_diff, state) == Q(0)

\* _computeSurplusAtEventEnd: the photosynthate expended on mitosis
expended(s, time_diff, state) ==
    IF state = "IN_G1SG2M" THEN RMul(time_diff, s.mitotic_cost_rate) ELSE Q(0)

\* the time of digestion with the sign of the correction reversed
timeOfDigestion_added(t_c, s_c, m) == RAdd(t_c, RDiv(s_c, m))

\* _computeSurplusAtEventEnd: t_d = t_c - (s_c / m)
timeOfDigestion(t_c, s_c, m) == RSub(t_c, RDiv(s_c, m))

\* the escape probability with the two states exchanged
escapeProb_exchanged(state) ==
    IF state = "IN_G0" THEN G1SG2MEscapeProb ELSE G0EscapeProb

\* _computeSurplusAtEventEnd: the clade's escape probability for the state
escapeProb(state) ==
    IF state = "IN_G0" THEN G0EscapeProb ELSE G1SG2MEscapeProb

\* Symbiont._computeSurplusAtEventEnd; p is the escape-vs-digestion coin and
\* frac the position of the escape time, both drawn only when the projected
\* surplus is negative.  The method assigns no field of the symbiont.
\* The sums and products are those of the floats when the balance, the rates
\* and the two times are Representable, which they are wherever the
\* specifications below call it (ProjectionsExact); between times a float
\* only approximates, rounding decides the sign of a balance that is zero here.
computeSurplusAtEventEnd(s, cs, this_time, next_time, state, p, frac) ==
    IF s.cell = NoCell
    THEN SurplusResult(Q(0), NoneTime, NoneTime, FALSE, "AttributeError")
    ELSE
    Bind(RSub(next_time, this_time), LAMBDA time_diff :
    Bind(RSub(RSub(RAdd(s.photosynthate_surplus,
                        RMul(time_diff, s.production_rate)),      \* produced
                   RMul(time_diff, cs[s.cell].demand)),           \* demanded
              expended(s, time_diff, state)),                     \* expended
         LAMBDA surplus_at_end :
    IF ~RLt(surplus_at_end, Q(0))
    THEN SurplusResult(surplus_at_end, NoneTime, NoneTime, FALSE, "none")
    ELSE IF ~RLt(Q(0), time_diff)
    THEN SurplusResult(surplus_at_end, NoneTime, NoneTime, FALSE, "AssertionError")
    ELSE
    \* m = (s_e - s_c) / (t_e - t_c)
    Bind(RDiv(RSub(surplus_at_end, s.photosynthate_surplus), time_diff), LAMBDA m :
    IF RIsZero(m)
    THEN SurplusResult(surplus_at_end, NoneTime, NoneTime, FALSE, "ZeroDivisionError")
    ELSE
    Bind(timeOfDigestion(this_time, s.photosynthate_surplus, m), LAMBDA t_d :
    IF state \notin {"IN_G0", "IN_G1SG2M"}
    THEN SurplusResult(surplus_at_end, t_d, NoneTime, FALSE, "AssertionError")
    ELSE SurplusResult(surplus_at_end, t_d,
                       IF RLt(p, escapeProb(state))
                       THEN uniform(this_time, t_d, frac) ELSE NoneTime,
                       TRUE, "none")))))

\* the next end of G0 without the drawn duration
computeNextEndOfG0_now(current_time, g0_time) == current_time

\* Symbiont._computeNextEndOfG0
computeNextEndOfG0(current_time, g0_time) == RAdd(current_time, g0_time)

\* Symbiont._computeNextEndOfG1SG2M
computeNextEndOfG1SG2M(current_time, g1sg2m_time) == RAdd(current_time, g1sg2m_time)

\* the comparison that takes a later time instead of an earlier one
earlier_latest(e, time, kind) == IF RLt(e.t, time) THEN [t |-> time, k |-> kind] ELSE e

\* the comparison that also takes an equal time
earlier_or_equal(e, time, kind) ==
    IF time = e.t \/ RLt(time, e.t) THEN [t |-> time, k |-> kind] ELSE e

\* one comparison of Symbiont._setNextEvent: e is [t, k], the minimum so far
earlier(e, time, kind) == IF RLt(time, e.t) THEN [t |-> time, k |-> kind] ELSE e

\* Symbiont._setNextEvent
setNextEvent(s) ==
    Bind(earlier([t |-> s.time_of_next_end_g0, k |-> "END_G0"],
                 s.time_of_next_end_g1sg2m, "END_G1SG2M"), LAMBDA e1 :
    Bind(earlier(e1, s.time_of_escape, "ESCAPE"), LAMBDA e2 :
    Bind(earlier(e2, s.time_of_digestion, "DIGESTION"), LAMBDA e3 :
    Bind(earlier(e3, s.time_of_denouement, "DENOUEMENT"), LAMBDA e4 :
    [s EXCEPT !.next_event_time = e4.t, !.next_event_type = e4.k]))))

\* Symbiont.getNextEvent
symbiontNextEvent(s) == <<s.next_event_time, s.next_event_type>>

\* _scheduleInitialEvents with an exit scheduled at a balance of zero too
scheduleInitialEvents_zero_exits(s, cs, current_time, d) ==
    Bind([s EXCEPT !.time_of_denouement = RAdd(current_time, d.residence),
                   !.time_of_next_end_g0 = computeNextEndOfG0(current_time, d.g0)],
         LAMBDA s1 :
    Bind(computeSurplusAtEventEnd(s1, cs, current_time, s1.time_of_next_end_g0,
                                  "IN_G0", d.p, d.frac), LAMBDA r :
    IF r.err # "none" THEN [sym |-> s1, err |-> r.err]
    ELSE IF RLe(r.surplus_at_end, Q(0))
    THEN [sym |-> [s1 EXCEPT !.time_of_digestion = r.t_d,
                             !.time_of_escape = IF r.t_ee # NoneTime THEN r.t_ee ELSE @],
          err |-> "none"]
    ELSE [sym |-> s1, err |-> "none"]))

\* Symbiont._scheduleInitialEvents
scheduleInitialEvents(s, cs, current_time, d) ==
    Bind([s EXCEPT !.time_of_denouement = RAdd(current_time, d.residence),
                   !.time_of_next_end_g0 = computeNextEndOfG0(current_time, d.g0)],
         LAMBDA s1 :
    Bind(computeSurplusAtEventEnd(s1, cs, current_time, s1.time_of_next_end_g0,
                                  "IN_G0", d.p, d.frac), LAMBDA r :
    IF r.err # "none" THEN [sym |-> s1, err |-> r.err]
    ELSE IF RLt(r.surplus_at_end, Q(0))
    THEN [sym |-> [s1 EXCEPT !.time_of_digestion = r.t_d,
                             !.time_of_escape = IF r.t_ee # NoneTime THEN r.t_ee ELSE @],
          err |-> "none"]
    ELSE [sym |-> s1, err |-> "none"]))

\* Symbiont._computeProductionRate
computeProductionRate(s, is_copy, draw) ==
    Bind(IF is_copy THEN s.production_rate ELSE PPR, LAMBDA rho :
    Bind(RAdd(rho, RMul(RDiv(RSub(Q(1), PhotosyntheticReduction), PhotosyntheticReduction),
                        RDiv(RMul(Q(s.cell[1]), rho), Q(NUM_ROWS - 1)))), LAMBDA rate :
    IF is_copy
    THEN (IF draw.mutation = "DELETERIOUS" THEN RSub(rate, divfuzz(rate, draw).fuzzamt)
                                           ELSE RAdd(rate, divfuzz(rate, draw).fuzzamt))
    ELSE RMul(rate, draw)))

\* Symbiont.__init__ without the new identity: every arrival is number 0
SymbiontInit_first_id(id, cell, cs, current_time, d) ==
    Bind([id |-> 0, clade_number |-> 0, cell |-> cell,
          how_arrived |-> "ARRIVED_FROM_POOL", parent_id |-> -1,
          agent_zero |-> id, num_divisions |-> 0,
          mitotic_cost_rate |-> d.mcr,
          production_rate |-> Q(0),
          photosynthate_surplus |-> d.surplus,
          surplus_on_arrival |-> d.surplus,
          arrival_time |-> current_time,
          prev_event_time |-> current_time,
          prev_event_type |-> "ARRIVAL",
          time_of_escape |-> INFINITY,
          time_of_digestion |-> INFINITY,
          time_of_denouement |-> INFINITY,
          time_of_next_end_g0 |-> INFINITY,
          time_of_next_end_g1sg2m |-> INFINITY,
          next_event_time |-> INFINITY,
          next_event_type |-> "None"], LAMBDA s0 :
    Bind([s0 EXCEPT !.production_rate = computeProductionRate(s0, FALSE, d.ppr)],
         LAMBDA s1 :
    Bind(scheduleInitialEvents(s1, cs, current_time, d), LAMBDA r :
    [sym |-> IF r.err = "none" THEN setNextEvent(r.sym) ELSE r.sym, err |-> r.err])))

\* Symbiont.__init__: a symbiont arriving from the pool, with identity id
SymbiontInit(id, cell, cs, current_time, d) ==
    Bind([id |-> id, clade_number |-> 0, cell |-> cell,
          how_arrived |-> "ARRIVED_FROM_POOL", parent_id |-> -1,
          agent_zero |-> id, num_divisions |-> 0,
          mitotic_cost_rate |-> d.mcr,
          production_rate |-> Q(0),
          photosynthate_surplus |-> d.surplus,
          surplus_on_arrival |-> d.surplus,
          arrival_time |-> current_time,
          prev_event_time |-> current_time,
          prev_event_type |-> "ARRIVAL",
          time_of_escape |-> INFINITY,
          time_of_digestion |-> INFINITY,
          time_of_denouement |-> INFINITY,
          time_of_next_end_g0 |-> INFINITY,
          time_of_next_end_g1sg2m |-> INFINITY,
          next_event_time |-> INFINITY,
          next_event_type |-> "None"], LAMBDA s0 :
    Bind([s0 EXCEPT !.production_rate = computeProductionRate(s0, FALSE, d.ppr)],
         LAMBDA s1 :
    Bind(scheduleInitialEvents(s1, cs, current_time, d), LAMBDA r :
    [sym |-> IF r.err = "none" THEN setNextEvent(r.sym) ELSE r.sym, err |-> r.err])))

\* _SymbiontCopy without the line that gives the copy its own identity
copyOfParent_same_id(parent, cell, current_time, id, mcr_mut) ==
    [parent EXCEPT !.num_divisions = 0,
                   !.how_arrived = "ARRIVED_VIA_DIVISION",
                   !.parent_id = parent.id,
                   !.agent_zero = parent.agent_zero,
                   !.cell = cell,
                   !.arrival_time = current_time,
                   !.prev_event_time = current_time,
                   !.prev_event_type = "ARRIVAL",
                   !.mitotic_cost_rate =
                       IF mcr_mut.mutation = "DELETERIOUS"
                       THEN RAdd(@, divfuzz(@, mcr_mut).fuzzamt)
                       ELSE RSub(@, divfuzz(@, mcr_mut).fuzzamt)]

\* _SymbiontCopy without the reset of the count of divisions
copyOfParent_keeps_divisions(parent, cell, current_time, id, mcr_mut) ==
    [parent EXCEPT !.id = id,
                   !.how_arrived = "ARRIVED_VIA_DIVISION",
                   !.parent_id = parent.id,
                   !.agent_zero = parent.agent_zero,
                   !.cell = cell,
                   !.arrival_time = current_time,
                   !.prev_event_time = current_time,
                   !.prev_event_type = "ARRIVAL",
                   !.mitotic_cost_rate =
                       IF mcr_mut.mutation = "DELETERIOUS"
                       THEN RAdd(@, divfuzz(@, mcr_mut).fuzzamt)
                       ELSE RSub(@, divfuzz(@, mcr_mut).fuzzamt)]

\* _SymbiontCopy up to the mitotic cost rate: copy.copy(self), the new
\* identity, the fields the copy resets and the mutation of the cost rate
copyOfParent(parent, cell, current_time, id, mcr_mut) ==
    [parent EXCEPT !.id = id, !.num_divisions = 0,
                   !.how_arrived = "ARRIVED_VIA_DIVISION",
                   !.parent_id = parent.id,
                   !.agent_zero = parent.agent_zero,
                   !.cell = cell,
                   !.arrival_time = current_time,
                   !.prev_event_time = current_time,
                   !.prev_event_type = "ARRIVAL",
                   !.mitotic_cost_rate =
                       IF mcr_mut.mutation = "DELETERIOUS"
                       THEN RAdd(@, divfuzz(@, mcr_mut).fuzzamt)
                       ELSE RSub(@, divfuzz(@, mcr_mut).fuzzamt)]

\* the child's share of the parent's surplus in _SymbiontCopy
fuzzedHalf(half, draw) ==
    IF draw.mutation = "DELETERIOUS" THEN RSub(half, divfuzz(half, draw).fuzzamt)
    ELSE IF draw.mutation = "BENEFICIAL" THEN RAdd(half, divfuzz(half, draw).fuzzamt)
    ELSE half

\* the split with the parent decremented by the plain half
splitSurplus_plain_half(surplus, draw) ==
    [child  |-> fuzzedHalf(RDiv(surplus, Q(2)), draw),
     parent |-> RSub(surplus, RDiv(surplus, Q(2)))]

\* the split of the parent's surplus in _SymbiontCopy: the child gets the
\* fuzzed half and the parent is decremented by what the child gets
splitSurplus(surplus, draw) ==
    Bind(fuzzedHalf(RDiv(surplus, Q(2)), draw), LAMBDA fuzzedhalf :
    [child |-> fuzzedhalf, parent |-> RSub(surplus, fuzzedhalf)])

\* _SymbiontCopy with the production rate computed for the child given to the
\* parent too
SymbiontCopy_shared_rate(parent, cell, cs, current_time, id, d) ==
    Bind(splitSurplus(parent.photosynthate_surplus, d.surplus_mut), LAMBDA split :
    Bind([copyOfParent(parent, cell, current_time, id, d.mcr_mut)
             EXCEPT !.photosynthate_surplus = split.child,
                    !.surplus_on_arrival = split.child], LAMBDA c2 :
    Bind([parent EXCEPT !.photosynthate_surplus = split.parent], LAMBDA p1 :
    IF cell = NoCell THEN [parent |-> p1, child |-> c2, err |-> "none"]
    ELSE
    Bind([c2 EXCEPT !.production_rate = computeProductionRate(c2, TRUE, d.ppr_mut)],
         LAMBDA c3 :
    Bind(scheduleInitialEvents(c3, cs, current_time,
             [residence |-> d.c_residence, g0 |-> d.c_g0, p |-> d.c_p, frac |-> d.c_frac]),
         LAMBDA r :
    [parent |-> [p1 EXCEPT !.production_rate = c3.production_rate],
     child  |-> IF r.err = "none" THEN setNextEvent(r.sym) ELSE r.sym,
     err    |-> r.err])))))

\* Symbiont._SymbiontCopy: the child of `parent` made at a division, with
\* identity id, going into `cell` (NoCell: no cell in the grid)
SymbiontCopy(parent, cell, cs, current_time, id, d) ==
    Bind(splitSurplus(parent.photosynthate_surplus, d.surplus_mut), LAMBDA split :
    Bind([copyOfParent(parent, cell, current_time, id, d.mcr_mut)
             EXCEPT !.photosynthate_surplus = split.child,
                    !.surplus_on_arrival = split.child], LAMBDA c2 :
    Bind([parent EXCEPT !.photosynthate_surplus = split.parent], LAMBDA p1 :
    IF cell = NoCell THEN [parent |-> p1, child |-> c2, err |-> "none"]
    ELSE
    Bind([c2 EXCEPT !.production_rate = computeProductionRate(c2, TRUE, d.ppr_mut)],
         LAMBDA c3 :
    Bind(scheduleInitialEvents(c3, cs, current_time,
             [residence |-> d.c_residence, g0 |-> d.c_g0, p |-> d.c_p, frac |-> d.c_frac]),
         LAMBDA r :
    [parent |-> p1,
     child  |-> IF r.err = "none" THEN setNextEvent(r.sym) ELSE r.sym,
     err    |-> r.err])))))

\* endOfG0 without the reset of the end-of-G0 time
endOfG0_keeps_end_g0(s, cs, current_time, d) ==
    IF s.prev_event_type \notin {"ARRIVAL", "END_G1SG2M"}
    THEN [sym |-> s, err |-> "AssertionError"]
    ELSE
    Bind(computeSurplusAtEventEnd(s, cs, s.prev_event_time, current_time,
                                  "IN_G0", Q(0), Q(0)), LAMBDA r1 :
    IF r1.err # "none" THEN [sym |-> s, err |-> r1.err]
    ELSE
    Bind([s EXCEPT !.photosynthate_surplus = r1.surplus_at_end], LAMBDA s2 :
    Bind(computeNextEndOfG1SG2M(current_time, d.g1sg2m), LAMBDA time_of_end_g1sg2m :
    Bind(computeSurplusAtEventEnd(s2, cs, current_time, time_of_end_g1sg2m,
                                  "IN_G1SG2M", d.p, d.frac), LAMBDA r2 :
    IF r2.err # "none" THEN [sym |-> s2, err |-> r2.err]
    ELSE
    Bind(IF RLt(r2.surplus_at_end, Q(0))
         THEN [s2 EXCEPT !.time_of_digestion = r2.t_d,
                         !.time_of_escape = IF r2.t_ee # NoneTime THEN r2.t_ee ELSE @]
         ELSE [s2 EXCEPT !.time_of_next_end_g1sg2m = time_of_end_g1sg2m], LAMBDA s3 :
    [sym |-> setNextEvent([s3 EXCEPT !.prev_event_time = current_time,
                                     !.prev_event_type = "END_G0"]),
     err |-> "none"])))))

\* endOfG0 without the assertion on the previous event
endOfG0_any_phase(s, cs, current_time, d) ==
    Bind([s EXCEPT !.time_of_next_end_g0 = INFINITY], LAMBDA s1 :
    Bind(computeSurplusAtEventEnd(s1, cs, s1.prev_event_time, current_time,
                                  "IN_G0", Q(0), Q(0)), LAMBDA r1 :
    IF r1.err # "none" THEN [sym |-> s1, err |-> r1.err]
    ELSE IF r1.t_d # NoneTime \/ r1.t_ee # NoneTime
    THEN [sym |-> s1, err |-> "AssertionError"]
    ELSE
    Bind([s1 EXCEPT !.photosynthate_surplus = r1.surplus_at_end], LAMBDA s2 :
    Bind(computeNextEndOfG1SG2M(current_time, d.g1sg2m), LAMBDA time_of_end_g1sg2m :
    Bind(computeSurplusAtEventEnd(s2, cs, current_time, time_of_end_g1sg2m,
                                  "IN_G1SG2M", d.p, d.frac), LAMBDA r2 :
    IF r2.err # "none" THEN [sym |-> s2, err |-> r2.err]
    ELSE
    Bind(IF RLt(r2.surplus_at_end, Q(0))
         THEN [s2 EXCEPT !.time_of_digestion = r2.t_d,
                         !.time_of_escape = IF r2.t_ee # NoneTime THEN r2.t_ee ELSE @]
         ELSE [s2 EXCEPT !.time_of_next_end_g1sg2m = time_of_end_g1sg2m], LAMBDA s3 :
    [sym |-> setNextEvent([s3 EXCEPT !.prev_event_time = current_time,
                                     !.prev_event_type = "END_G0"]),
     err |-> "none"]))))))

\* Symbiont.endOfG0
endOfG0(s, cs, current_time, d) ==
    Bind([s EXCEPT !.time_of_next_end_g0 = INFINITY], LAMBDA s1 :
    IF s1.prev_event_type \notin {"ARRIVAL", "END_G1SG2M"}
    THEN [sym |-> s1, err |-> "AssertionError"]
    ELSE
    Bind(computeSurplusAtEventEnd(s1, cs, s1.prev_event_time, current_time,
                                  "IN_G0", Q(0), Q(0)), LAMBDA r1 :
    IF r1.err # "none" THEN [sym |-> s1, err |-> r1.err]
    ELSE IF r1.t_d # NoneTime \/ r1.t_ee # NoneTime
    THEN [sym |-> s1, err |-> "AssertionError"]
    ELSE
    Bind([s1 EXCEPT !.photosynthate_surplus = r1.surplus_at_end], LAMBDA s2 :
    Bind(computeNextEndOfG1SG2M(current_time, d.g1sg2m), LAMBDA time_of_end_g1sg2m :
    Bind(computeSurplusAtEventEnd(s2, cs, current_time, time_of_end_g1sg2m,
                                  "IN_G1SG2M", d.p, d.frac), LAMBDA r2 :
    IF r2.err # "none" THEN [sym |-> s2, err |-> r2.err]
    ELSE
    Bind(IF RLt(r2.surplus_at_end, Q(0))
         THEN [s2 EXCEPT !.time_of_digestion = r2.t_d,
                         !.time_of_escape = IF r2.t_ee # NoneTime THEN r2.t_ee ELSE @]
         ELSE [s2 EXCEPT !.time_of_next_end_g1sg2m = time_of_end_g1sg2m], LAMBDA s3 :
    [sym |-> setNextEvent([s3 EXCEPT !.prev_event_time = current_time,
                                     !.prev_event_type = "END_G0"]),
     err |-> "none"]))))))

\* the eight offsets of the Moore neighbourhood, in the order of the source
MoorePositions ==
    << <<-1, -1>>, <<-1, 0>>, <<-1, 1>>, <<0, -1>>, <<0, 1>>, <<1, -1>>, <<1, 0>>, <<1, 1>> >>

Reverse(q) == [i \in 1 .. Len(q) |-> q[Len(q) + 1 - i]]

\* orders RNG.shuffle may leave the offsets in
ShuffleDraws == {MoorePositions, Reverse(MoorePositions)}

OutsideCell == <<-2, -2>>   \* SymbiontState.CELL_OUTSIDE_ENVIRONMENT

\* the row test that skips no neighbour
rowOutside_never(num_rows, r) == FALSE

\* _checkForOpenAdjacentCell: a neighbour row outside the grid is skipped
rowOutside(num_rows, r) == r < 0 \/ r >= num_rows

\* the neighbour column held inside the grid without wrapping
wrapColumn_clamped(num_cols, c) ==
    IF c < 0 THEN 0 ELSE IF c >= num_cols THEN num_cols - 1 ELSE c

\* _checkForOpenAdjacentCell: the neighbour column wraps
wrapColumn(num_cols, c) == c % num_cols

\* the border test that holds in every row
isBorderRow_always(num_rows, row) == TRUE

\* _checkForOpenAdjacentCell: the parent lives on the top or bottom row
isBorderRow(num_rows, row) == row = 0 \/ row = num_rows - 1

\* the while loop of _checkForOpenAdjacentCell in a grid of num_rows by
\* num_cols: positions.pop() takes the last
RECURSIVE scanPositionsIn(_, _, _, _, _, _)
scanPositionsIn(num_rows, num_cols, row, col, cs, positions) ==
    IF Len(positions) = 0 THEN [cell |-> NoCell, err |-> "none"]
    ELSE LET pos  == positions[Len(positions)]
             rest == SubSeq(positions, 1, Len(positions) - 1)
             r    == row + pos[1]
             c    == wrapColumn(num_cols, col + pos[2])
         IN  IF rowOutside(num_rows, r)
             THEN scanPositionsIn(num_rows, num_cols, row, col, cs, rest)
             ELSE IF getCellRaisesIn(num_rows, num_cols, r, c)
             THEN [cell |-> NoCell, err |-> "ValueError"]
             ELSE IF ~cs[<<r, c>>].occupied THEN [cell |-> <<r, c>>, err |-> "none"]
             ELSE scanPositionsIn(num_rows, num_cols, row, col, cs, rest)

\* the while loop of _checkForOpenAdjacentCell in the grid of the run
scanPositions(row, col, cs, positions) ==
    scanPositionsIn(NUM_ROWS, NUM_COLS, row, col, cs, positions)

\* Symbiont._checkForOpenAdjacentCell in a grid of num_rows by num_cols
checkForOpenAdjacentCellIn(num_rows, num_cols, s, cs, positions, p) ==
    Bind(scanPositionsIn(num_rows, num_cols, s.cell[1], s.cell[2], cs, positions),
         LAMBDA r :
    IF r.err = "none" /\ r.cell # NoCell /\ isBorderRow(num_rows, s.cell[1])
       /\ RLt(p, <<3, 8>>)
    THEN [cell |-> OutsideCell, err |-> "none"]
    ELSE r)

\* Symbiont._checkForOpenAdjacentCell
checkForOpenAdjacentCell(s, cs, positions, p) ==
    checkForOpenAdjacentCellIn(NUM_ROWS, NUM_COLS, s, cs, positions, p)

\* the phagocytosis that succeeds whatever the draw
determinePhagocytosis_always(is_arrival, affinity_prob) == TRUE

\* Symbiont._determinePhagocytosis
determinePhagocytosis(is_arrival, affinity_prob) ==
    RLt(affinity_prob, IF is_arrival THEN ArrivalAffinityProb ELSE DivisionAffinityProb)

\* the statuses after which the parent's next end of G0 is not computed, with
\* the eviction of the parent left out
ParentGone_without_evicted == {"PARENT_INFECTS_OUTSIDE", "PARENT_NO_AFFINITY"}

\* endOfG1SG2M: the statuses after which the parent's next end of G0 is not
\* computed
ParentGone == {"PARENT_EVICTED", "PARENT_INFECTS_OUTSIDE", "PARENT_NO_AFFINITY"}

\* the branches of endOfG1SG2M with the parent that infects outside keeping
\* its cell
mitosisOutcome_parent_keeps_cell(s, open, evict, phagocytosed) ==
    IF open = OutsideCell
    THEN (IF evict
          THEN [status |-> "PARENT_INFECTS_OUTSIDE", child_cell |-> s.cell, parent_cell |-> s.cell]
          ELSE [status |-> "CHILD_INFECTS_OUTSIDE", child_cell |-> NoCell, parent_cell |-> s.cell])
    ELSE IF open # NoCell
    THEN (IF evict
          THEN (IF phagocytosed
                THEN [status |-> "BOTH_STAY", child_cell |-> s.cell, parent_cell |-> open]
                ELSE [status |-> "PARENT_NO_AFFINITY", child_cell |-> s.cell, parent_cell |-> NoCell])
          ELSE (IF phagocytosed
                THEN [status |-> "BOTH_STAY", child_cell |-> open, parent_cell |-> s.cell]
                ELSE [status |-> "CHILD_NO_AFFINITY", child_cell |-> NoCell, parent_cell |-> s.cell]))
    ELSE (IF evict
          THEN [status |-> "PARENT_EVICTED", child_cell |-> s.cell, parent_cell |-> NoCell]
          ELSE [status |-> "CHILD_EVICTED", child_cell |-> NoCell, parent_cell |-> s.cell])

\* the branch of endOfG1SG2M taken for the candidate cell `open` and the coins:
\* the status returned, the cell given to _SymbiontCopy and the parent's cell
mitosisOutcome(s, open, evict, phagocytosed) ==
    IF open = OutsideCell
    THEN (IF evict
          THEN [status |-> "PARENT_INFECTS_OUTSIDE", child_cell |-> s.cell, parent_cell |-> NoCell]
          ELSE [status |-> "CHILD_INFECTS_OUTSIDE", child_cell |-> NoCell, parent_cell |-> s.cell])
    ELSE IF open # NoCell
    THEN (IF evict
          THEN (IF phagocytosed
                THEN [status |-> "BOTH_STAY", child_cell |-> s.cell, parent_cell |-> open]
                ELSE [status |-> "PARENT_NO_AFFINITY", child_cell |-> s.cell, parent_cell |-> NoCell])
          ELSE (IF phagocytosed
                THEN [status |-> "BOTH_STAY", child_cell |-> open, parent_cell |-> s.cell]
                ELSE [status |-> "CHILD_NO_AFFINITY", child_cell |-> NoCell, parent_cell |-> s.cell]))
    ELSE (IF evict
          THEN [status |-> "PARENT_EVICTED", child_cell |-> s.cell, parent_cell |-> NoCell]
          ELSE [status |-> "CHILD_EVICTED", child_cell |-> NoCell, parent_cell |-> s.cell])

G1Result(parent, child, cs, status, e) ==
    [parent |-> parent, child |-> child, cells |-> cs, status |-> status, err |-> e]

\* endOfG1SG2M without the reset of the end-of-G1SG2M time
endOfG1SG2M_keeps_end_g1sg2m(ref, s, cs, current_time, id, child_ref, d) ==
    Bind(s, LAMBDA s1 :
    IF s1.prev_event_type # "END_G0"
    THEN G1Result(s1, s1, cs, "None", "AssertionError")
    ELSE
    Bind(computeSurplusAtEventEnd(s1, cs, s1.prev_event_time, current_time,
                                  "IN_G1SG2M", Q(0), Q(0)), LAMBDA r1 :
    IF r1.err # "none" THEN G1Result(s1, s1, cs, "None", r1.err)
    ELSE IF r1.t_d # NoneTime \/ r1.t_ee # NoneTime
    THEN G1Result(s1, s1, cs, "None", "AssertionError")
    ELSE
    Bind([s1 EXCEPT !.photosynthate_surplus = r1.surplus_at_end,
                    !.num_divisions = @ + 1], LAMBDA s2 :
    Bind(checkForOpenAdjacentCell(s2, cs, d.shuffle, d.p_outside), LAMBDA oc :
    IF oc.err # "none" THEN G1Result(s2, s2, cs, "None", oc.err)
    ELSE
    Bind(RLt(d.p_evict, ParentEvictionProb), LAMBDA evict :
    Bind(mitosisOutcome(s2, oc.cell, evict, determinePhagocytosis(FALSE, d.p_affinity)),
         LAMBDA out :
    Bind(SymbiontCopy(s2, out.child_cell, cs, current_time, id, d), LAMBDA cp :
    IF cp.err # "none" THEN G1Result(cp.parent, cp.child, cs, "None", cp.err)
    ELSE
    Bind(IF out.child_cell # NoCell
         THEN [cs EXCEPT ![out.child_cell] = setSymbiont(@, child_ref, current_time)]
         ELSE cs, LAMBDA cs1 :
    Bind(IF out.status = "BOTH_STAY" /\ evict
         THEN [cs1 EXCEPT ![out.parent_cell] = setSymbiont(@, ref, current_time)]
         ELSE cs1, LAMBDA cs2 :
    Bind([cp.parent EXCEPT !.cell = out.parent_cell], LAMBDA s3 :
    IF out.status \in ParentGone
    THEN G1Result(setNextEvent([s3 EXCEPT !.prev_event_time = current_time,
                                          !.prev_event_type = "END_G1SG2M"]),
                  cp.child, cs2, out.status, "none")
    ELSE
    Bind(computeNextEndOfG0(current_time, d.g0), LAMBDA time_of_end_of_g0 :
    Bind(computeSurplusAtEventEnd(s3, cs2, current_time, time_of_end_of_g0,
                                  "IN_G0", d.p, d.frac), LAMBDA r2 :
    IF r2.err # "none" THEN G1Result(s3, cp.child, cs2, out.status, r2.err)
    ELSE
    Bind(IF RLt(r2.surplus_at_end, Q(0))
         THEN [s3 EXCEPT !.time_of_digestion = r2.t_d,
                         !.time_of_escape = IF r2.t_ee # NoneTime THEN r2.t_ee ELSE @]
         ELSE [s3 EXCEPT !.time_of_next_end_g0 = time_of_end_of_g0], LAMBDA s4 :
    G1Result(setNextEvent([s4 EXCEPT !.prev_event_time = current_time,
                                     !.prev_event_type = "END_G1SG2M"]),
             cp.child, cs2, out.status, "none"))))))))))))))

\* Symbiont.endOfG1SG2M for the symbiont object `ref`; the child becomes object
\* child_ref with identity id
endOfG1SG2M(ref, s, cs, current_time, id, child_ref, d) ==
    Bind([s EXCEPT !.time_of_next_end_g1sg2m = INFINITY], LAMBDA s1 :
    IF s1.prev_event_type # "END_G0"
    THEN G1Result(s1, s1, cs, "None", "AssertionError")
    ELSE
    Bind(computeSurplusAtEventEnd(s1, cs, s1.prev_event_time, current_time,
                                  "IN_G1SG2M", Q(0), Q(0)), LAMBDA r1 :
    IF r1.err # "none" THEN G1Result(s1, s1, cs, "None", r1.err)
    ELSE IF r1.t_d # NoneTime \/ r1.t_ee # NoneTime
    THEN G1Result(s1, s1, cs, "None", "AssertionError")
    ELSE
    Bind([s1 EXCEPT !.photosynthate_surplus = r1.surplus_at_end,
                    !.num_divisions = @ + 1], LAMBDA s2 :
    Bind(checkForOpenAdjacentCell(s2, cs, d.shuffle, d.p_outside), LAMBDA oc :
    IF oc.err # "none" THEN G1Result(s2, s2, cs, "None", oc.err)
    ELSE
    Bind(RLt(d.p_evict, ParentEvictionProb), LAMBDA evict :
    Bind(mitosisOutcome(s2, oc.cell, evict, determinePhagocytosis(FALSE, d.p_affinity)),
         LAMBDA out :
    Bind(SymbiontCopy(s2, out.child_cell, cs, current_time, id, d), LAMBDA cp :
    IF cp.err # "none" THEN G1Result(cp.parent, cp.child, cs, "None", cp.err)
    ELSE
    Bind(IF out.child_cell # NoCell
         THEN [cs EXCEPT ![out.child_cell] = setSymbiont(@, child_ref, current_time)]
         ELSE cs, LAMBDA cs1 :
    Bind(IF out.status = "BOTH_STAY" /\ evict
         THEN [cs1 EXCEPT ![out.parent_cell] = setSymbiont(@, ref, current_time)]
         ELSE cs1, LAMBDA cs2 :
    Bind([cp.parent EXCEPT !.cell = out.parent_cell], LAMBDA s3 :
    IF out.status \in ParentGone
    THEN G1Result(setNextEvent([s3 EXCEPT !.prev_event_time = current_time,
                                          !.prev_event_type = "END_G1SG2M"]),
                  cp.child, cs2, out.status, "none")
    ELSE
    Bind(computeNextEndOfG0(current_time, d.g0), LAMBDA time_of_end_of_g0 :
    Bind(computeSurplusAtEventEnd(s3, cs2, current_time, time_of_end_of_g0,
                                  "IN_G0", d.p, d.frac), LAMBDA r2 :
    IF r2.err # "none" THEN G1Result(s3, cp.child, cs2, out.status, r2.err)
    ELSE
    Bind(IF RLt(r2.surplus_at_end, Q(0))
         THEN [s3 EXCEPT !.time_of_digestion = r2.t_d,
                         !.time_of_escape = IF r2.t_ee # NoneTime THEN r2.t_ee ELSE @]
         ELSE [s3 EXCEPT !.time_of_next_end_g0 = time_of_end_of_g0], LAMBDA s4 :
    G1Result(setNextEvent([s4 EXCEPT !.prev_event_time = current_time,
                                     !.prev_event_type = "END_G1SG2M"]),
             cp.child, cs2, out.status, "none"))))))))))))))

ExitResult(s, cs, e) == [sym |-> s, cells |-> cs, err |-> e]

\* the call self._cell.removeSymbiont(current_time) that ends the three exits
leaveCell(s, cs, current_time) ==
    IF s.cell = NoCell THEN ExitResult(s, cs, "AttributeError")
    ELSE Bind(removeSymbiont(cs[s.cell], current_time), LAMBDA r :
         ExitResult(s, [cs EXCEPT ![s.cell] = r.cell], r.err))

\* digestion without the reset of the surplus
digestion_keeps_surplus(s, cs, current_time) == leaveCell(s, cs, current_time)

\* Symbiont.digestion
digestion(s, cs, current_time) ==
    leaveCell([s EXCEPT !.photosynthate_surplus = Q(0)], cs, current_time)

\* Symbiont.escape
escape(s, cs, current_time) ==
    leaveCell([s EXCEPT !.photosynthate_surplus = Q(0)], cs, current_time)

\* denouement with the surplus reset as digestion and escape reset it
denouement_resets_surplus(s, cs, current_time) ==
    leaveCell([s EXCEPT !.photosynthate_surplus = Q(0)], cs, current_time)

\* Symbiont.denouement
denouement(s, cs, current_time) ==
    Bind(computeSurplusAtEventEnd(s, cs, s.prev_event_time, current_time,
                                  "None", Q(0), Q(0)), LAMBDA r :
    IF r.err # "none" THEN ExitResult(s, cs, r.err)
    ELSE IF r.t_d # NoneTime \/ r.t_ee # NoneTime \/ RLt(r.surplus_at_end, Q(0))
    THEN ExitResult(s, cs, "AssertionError")
    ELSE leaveCell([s EXCEPT !.photosynthate_surplus = r.surplus_at_end], cs, current_time))

\* every cell position in the row-major order of the loops of findOpenCell
AllPositions ==
    [i \in 1 .. NUM_ROWS * NUM_COLS |-> <<(i - 1) \div NUM_COLS, (i - 1) % NUM_COLS>>]

\* the list open_cells built by Symbiont.findOpenCell
openCells(cs) == SelectSeq(AllPositions, LAMBDA q : ~cs[q].occupied)

\* findOpenCell choosing among all the cells, open or not
findOpenCell_any_cell(cs, which) == [cell |-> AllPositions[which + 1], err |-> "none"]

\* Symbiont.findOpenCell: `which` is the index RNG.randint returns
findOpenCell(cs, which) ==
    IF Len(openCells(cs)) = 0 THEN [cell |-> NoCell, err |-> "AssertionError"]
    ELSE [cell |-> openCells(cs)[which + 1], err |-> "none"]

ArrivalResult(created, s, cs, e) == [created |-> created, sym |-> s, cells |-> cs, err |-> e]

\* generateArrival without the test for a full grid
generateArrival_unguarded(cs, current_time, num_symbionts, id, ref, d) ==
    IF ~determinePhagocytosis(TRUE, d.p_affinity)
    THEN ArrivalResult(FALSE, NoEvent, cs, "none")
    ELSE
    Bind(findOpenCell(cs, d.which), LAMBDA oc :
    IF oc.err # "none" THEN ArrivalResult(FALSE, NoEvent, cs, oc.err)
    ELSE
    Bind(SymbiontInit(id, oc.cell, cs, current_time, d), LAMBDA r :
    IF r.err # "none" THEN ArrivalResult(FALSE, r.sym, cs, r.err)
    ELSE ArrivalResult(TRUE, r.sym,
                       [cs EXCEPT ![oc.cell] = setSymbiont(@, ref, current_time)], "none")))

\* Symbiont.generateArrival: the new symbiont becomes object ref with identity id
generateArrival(cs, current_time, num_symbionts, id, ref, d) ==
    IF num_symbionts = NUM_ROWS * NUM_COLS THEN ArrivalResult(FALSE, NoEvent, cs, "none")
    ELSE IF ~determinePhagocytosis(TRUE, d.p_affinity)
    THEN ArrivalResult(FALSE, NoEvent, cs, "none")
    ELSE
    Bind(findOpenCell(cs, d.which), LAMBDA oc :
    IF oc.err # "none" THEN ArrivalResult(FALSE, NoEvent, cs, oc.err)
    ELSE
    Bind(SymbiontInit(id, oc.cell, cs, current_time, d), LAMBDA r :
    IF r.err # "none" THEN ArrivalResult(FALSE, r.sym, cs, r.err)
    ELSE ArrivalResult(TRUE, r.sym,
                       [cs EXCEPT ![oc.cell] = setSymbiont(@, ref, current_time)], "none")))

----------------------------------------------------------------------------
(* The driver loop: extract the minimum event, stop if its time is past    *)
(* the maximum simulated time, otherwise dispatch it to its symbiont and   *)
(* insert the next event of every symbiont that is in a cell afterwards.   *)

NoDraws == [none |-> TRUE]
NoSymbiont == [id |-> -1]

Observed(op, ref, child, status, pre, d, ret) ==
    [op |-> op, ref |-> ref, child |-> child, status |-> status, pre |-> pre,
     d |-> d, ret |-> ret]

Running == err = "none" /\ last.op # "STOP"

\* Symbiont.__init__ ran in generateArrival and took a number from
\* Symbiont._count, whether or not its scheduling raised afterwards
Constructed(r) == r.created \/ "id" \in DOMAIN r.sym

\* _SymbiontCopy ran in endOfG1SG2M and took a number from Symbiont._count,
\* whether or not the scheduling of the copy raised afterwards
Copied(r) == r.status # "None" \/ r.child.id # r.parent.id

Coin(used) == IF used THEN Uniform01 ELSE {Q(0)}
Frac(used) == IF used THEN UniformFracs ELSE {Q(0)}
NoEscape   == <<1, 1>>   \* a coin value below no probability

\* the number of resident symbionts the driver hands to generateArrival
numResident(cs) == Cardinality({q \in Positions : cs[q].occupied})

\* the driver inserts a symbiont's next event when the symbiont is in a cell
\* and reports a finite time; r is [heap, cnt, err]
insertNextEventOf(r, s, ref) ==
    IF r.err # "none" \/ s.cell = NoCell \/ IsInf(s.next_event_time) THEN r
    ELSE Bind(insertEvent(r.heap,
                  Event(symbiontNextEvent(s)[1], symbiontNextEvent(s)[2], ref, r.cnt)),
              LAMBDA i : [heap |-> i.heap, cnt |-> r.cnt + 1, err |-> i.err])

\* the driver schedules the next pool arrival
insertArrival(r, time) ==
    IF r.err # "none" THEN r
    ELSE Bind(insertEvent(r.heap, Event(time, "ARRIVAL", 0, r.cnt)),
              LAMBDA i : [heap |-> i.heap, cnt |-> r.cnt + 1, err |-> i.err])

\* the demands of the cells of a run: each cell draws its own demand; the runs
\* explored are those in which only the middle row may draw the higher one
DemandMaps ==
    {dem \in [Positions -> DemandDraws] : \A q \in Positions : q[1] # 1 => dem[q] = Q(3)}

Dispatchable(pop, type) ==
    /\ Running
    /\ pop.err = "none"
    /\ pop.ret.type = type
    /\ RLe(pop.ret.time, MAX_SIMULATED_TIME)

Init ==
    /\ \E dem \in DemandMaps : cells = [q \in Positions |-> Cell(dem[q])]
    /\ heap = <<Event(Q(0), "ARRIVAL", 0, 0)>>
    /\ event_cnt = 1
    /\ symbionts = <<>>
    /\ sym_count = 0
    /\ clock = Q(0)
    /\ err = "none"
    /\ last = Observed("init", 0, 0, "None", NoSymbiont, NoDraws, NoEvent)

\* the extraction itself raises
ExtractRaises ==
    \E pop \in {getNextEvent(heap)} :
    /\ Running
    /\ pop.err # "none"
    /\ heap' = pop.heap
    /\ err' = pop.err
    /\ last' = Observed("getNextEvent", 0, 0, "None", NoSymbiont, NoDraws, NoEvent)
    /\ UNCHANGED <<event_cnt, symbionts, sym_count, cells, clock>>

\* the calendar is empty or the next event is past the maximum simulated time
Stop ==
    \E pop \in {getNextEvent(heap)} :
    /\ Running
    /\ pop.err = "none"
    /\ ~RLe(pop.ret.time, MAX_SIMULATED_TIME)
    /\ heap' = pop.heap
    /\ last' = Observed("STOP", 0, 0, "None", NoSymbiont, NoDraws, pop.ret)
    /\ UNCHANGED <<event_cnt, symbionts, sym_count, cells, clock, err>>

Arrival ==
    \E pop \in {getNextEvent(heap)} :
    /\ Dispatchable(pop, "ARRIVAL")
    /\ sym_count < MaxSymbionts
    /\ \E t \in {pop.ret.time}, ref \in {Len(symbionts) + 1}, n \in {numResident(cells)} :
       \E p_affinity \in Coin(n # NUM_ROWS * NUM_COLS) :
       \E enters \in {n # NUM_ROWS * NUM_COLS /\ determinePhagocytosis(TRUE, p_affinity)} :
       \E which \in IF enters THEN 0 .. (Len(openCells(cells)) - 1) ELSE {0} :
       \E mcr \in IF enters THEN MCRDraws ELSE {Q(0)} :
       \E ppr \in IF enters THEN PPRFuzzFactors ELSE {Q(0)} :
       \E surplus \in IF enters THEN {x \in SurplusDraws : RLe(x, MaxInitialSurplus)}
                                ELSE {Q(0)} :
       \E residence \in IF enters THEN ResidenceDraws ELSE {Q(0)} :
       \E g0 \in IF enters THEN G0Draws ELSE {Q(0)} :
       \E d0 \in {[p_affinity |-> p_affinity, which |-> which, mcr |-> mcr, ppr |-> ppr,
                   surplus |-> surplus, residence |-> residence, g0 |-> g0,
                   p |-> NoEscape, frac |-> Q(0)]} :
       \E r0 \in {generateArrival(cells, t, n, sym_count, ref, d0)} :
       \E neg \in {r0.created /\ ~IsInf(r0.sym.time_of_digestion)} :
       \E p \in Coin(neg) :
       \E frac \in Frac(neg /\ RLt(p, G0EscapeProb)) :
       \E ia \in InterarrivalDraws :
       \E r \in {generateArrival(cells, t, n, sym_count, ref,
                                 [d0 EXCEPT !.p = p, !.frac = frac])} :
       \E h1 \in {IF r.created
                  THEN insertNextEventOf([heap |-> pop.heap, cnt |-> event_cnt,
                                          err |-> r.err], r.sym, ref)
                  ELSE [heap |-> pop.heap, cnt |-> event_cnt, err |-> r.err]} :
       \E h2 \in {insertArrival(h1, RAdd(t, ia))} :
           /\ clock' = t
           /\ cells' = r.cells
           /\ symbionts' = IF r.created THEN Append(symbionts, r.sym) ELSE symbionts
           /\ sym_count' = IF Constructed(r) THEN sym_count + 1 ELSE sym_count
           /\ heap' = h2.heap
           /\ event_cnt' = h2.cnt
           /\ err' = h2.err
           /\ last' = Observed("ARRIVAL", IF r.created THEN ref ELSE 0, 0, "None",
                               NoSymbiont, NoDraws, pop.ret)

\* the dispatch of the end-of-G0 event pop.ret, pop.heap being the other events
DispatchEndOfG0(pop) ==
    /\ \E t \in {pop.ret.time}, ref \in {pop.ret.symbiont} :
       \E s \in {symbionts[ref]} :
       \E g1sg2m \in G1SG2MDraws :
       \E d0 \in {[g1sg2m |-> g1sg2m, p |-> NoEscape, frac |-> Q(0)]} :
       \E r0 \in {endOfG0(s, cells, t, d0)} :
       \E neg \in {r0.err = "none" /\ ~IsInf(r0.sym.time_of_digestion)} :
       \E p \in Coin(neg) :
       \E frac \in Frac(neg /\ RLt(p, G1SG2MEscapeProb)) :
       \E r \in {endOfG0(s, cells, t, [d0 EXCEPT !.p = p, !.frac = frac])} :
       \E h \in {insertNextEventOf([heap |-> pop.heap, cnt |-> event_cnt, err |-> r.err],
                                   r.sym, ref)} :
           /\ clock' = t
           /\ symbionts' = [symbionts EXCEPT ![ref] = r.sym]
           /\ heap' = h.heap
           /\ event_cnt' = h.cnt
           /\ err' = h.err
           /\ last' = Observed("END_G0", ref, 0, "None", s,
                               [g1sg2m |-> g1sg2m, p |-> p, frac |-> frac], pop.ret)
           /\ UNCHANGED <<sym_count, cells>>

EndOfG0 ==
    \E pop \in {getNextEvent(heap)} :
    /\ Dispatchable(pop, "END_G0")
    /\ DispatchEndOfG0(pop)

\* the dispatch of the end-of-G1SG2M event pop.ret, pop.heap being the other
\* events
DispatchEndOfG1SG2M(pop) ==
    /\ \E t \in {pop.ret.time}, ref \in {pop.ret.symbiont}, cref \in {Len(symbionts) + 1} :
       \E s \in {symbionts[ref]} :
       \E shuffle \in ShuffleDraws :
       \E found \in {scanPositions(s.cell[1], s.cell[2], cells, shuffle).cell} :
       \E p_outside \in Coin(found # NoCell /\ (s.cell[1] = 0 \/ s.cell[1] = NUM_ROWS - 1)) :
       \E p_evict \in Uniform01 :
       \E open \in {checkForOpenAdjacentCell(s, cells, shuffle, p_outside).cell} :
       \E p_affinity \in Coin(open \in Positions) :
       \E out \in {mitosisOutcome(s, open, RLt(p_evict, ParentEvictionProb),
                                  determinePhagocytosis(FALSE, p_affinity))} :
       \E housed \in {out.child_cell # NoCell}, stays \in {out.status \notin ParentGone} :
       \E mcr_mut \in MCRMutDraws :
       \E surplus_mut \in SurplusMutDraws :
       \E ppr_mut \in IF housed THEN PPRMutDraws ELSE {NoMutation} :
       \E c_residence \in IF housed THEN ResidenceDraws ELSE {Q(0)} :
       \E c_g0 \in IF housed THEN G0Draws ELSE {Q(0)} :
       \E g0 \in IF stays THEN G0Draws ELSE {Q(0)} :
       \E d0 \in {[shuffle |-> shuffle, p_outside |-> p_outside, p_evict |-> p_evict,
                   p_affinity |-> p_affinity, mcr_mut |-> mcr_mut,
                   surplus_mut |-> surplus_mut, ppr_mut |-> ppr_mut,
                   c_residence |-> c_residence, c_g0 |-> c_g0, c_p |-> NoEscape,
                   c_frac |-> Q(0), g0 |-> g0, p |-> NoEscape, frac |-> Q(0)]} :
       \E r0 \in {endOfG1SG2M(ref, s, cells, t, sym_count, cref, d0)} :
       \* the child is scheduled, its coin drawn, before the parent is projected
       \E cneg \in {r0.status # "None" /\ housed /\ ~IsInf(r0.child.time_of_digestion)},
          pneg \in {r0.err = "none" /\ stays /\ ~IsInf(r0.parent.time_of_digestion)} :
       \E c_p \in Coin(cneg) :
       \E c_frac \in Frac(cneg /\ RLt(c_p, G0EscapeProb)) :
       \E p \in Coin(pneg) :
       \E frac \in Frac(pneg /\ RLt(p, G0EscapeProb)) :
       \E r \in {endOfG1SG2M(ref, s, cells, t, sym_count, cref,
                             [d0 EXCEPT !.c_p = c_p, !.c_frac = c_frac,
                                        !.p = p, !.frac = frac])} :
       \E made \in {r.status # "None"} :
       \E h1 \in {insertNextEventOf([heap |-> pop.heap, cnt |-> event_cnt, err |-> r.err],
                                    r.parent, ref)} :
       \E h2 \in {insertNextEventOf(h1, r.child, cref)} :
           /\ clock' = t
           /\ cells' = r.cells
           /\ symbionts' = IF made THEN Append([symbionts EXCEPT ![ref] = r.parent], r.child)
                           ELSE [symbionts EXCEPT ![ref] = r.parent]
           /\ sym_count' = IF Copied(r) THEN sym_count + 1 ELSE sym_count
           /\ heap' = h2.heap
           /\ event_cnt' = h2.cnt
           /\ err' = h2.err
           /\ last' = Observed("END_G1SG2M", ref, IF made THEN cref ELSE 0, r.status,
                               s, [surplus_mut |-> surplus_mut, p_evict |-> p_evict,
                                   open |-> open, p_affinity |-> p_affinity], pop.ret)

EndOfG1SG2M ==
    \E pop \in {getNextEvent(heap)} :
    /\ Dispatchable(pop, "END_G1SG2M")
    /\ sym_count < MaxSymbionts
    /\ DispatchEndOfG1SG2M(pop)

\* digestion, escape and denouement: the handler, and nothing is inserted
Exit(pop, type, r) ==
    /\ clock' = pop.ret.time
    /\ symbionts' = [symbionts EXCEPT ![pop.ret.symbiont] = r.sym]
    /\ cells' = r.cells
    /\ heap' = pop.heap
    /\ err' = r.err
    /\ last' = Observed(type, pop.ret.symbiont, 0, "None",
                        symbionts[pop.ret.symbiont], NoDraws, pop.ret)
    /\ UNCHANGED <<event_cnt, sym_count>>

Digestion ==
    \E pop \in {getNextEvent(heap)} :
    /\ Dispatchable(pop, "DIGESTION")
    /\ \E r \in {digestion(symbionts[pop.ret.symbiont], cells, pop.ret.time)} :
           Exit(pop, "DIGESTION", r)

Escape ==
    \E pop \in {getNextEvent(heap)} :
    /\ Dispatchable(pop, "ESCAPE")
    /\ \E r \in {escape(symbionts[pop.ret.symbiont], cells, pop.ret.time)} :
           Exit(pop, "ESCAPE", r)

Denouement ==
    \E pop \in {getNextEvent(heap)} :
    /\ Dispatchable(pop, "DENOUEMENT")
    /\ \E r \in {denouement(symbionts[pop.ret.symbiont], cells, pop.ret.time)} :
           Exit(pop, "DENOUEMENT", r)

Next ==
    \/ Arrival
    \/ EndOfG0
    \/ EndOfG1SG2M
    \/ Digestion
    \/ Escape
    \/ Denouement
    \/ ExtractRaises
    \/ Stop

Spec == Init /\ [][Next]_vars

----------------------------------------------------------------------------
(* The event list on its own: any interleaving of insertEvent and          *)
(* getNextEvent, over events of every kind at a few times.                 *)

CalTimes == {Q(1), Q(2)}

InitCal ==
    /\ heap = <<>>
    /\ event_cnt = 0
    /\ symbionts = <<>>
    /\ sym_count = 0
    /\ cells = [q \in Positions |-> Cell(Q(2))]
    /\ clock = Q(0)
    /\ err = "none"
    /\ last = Observed("init", 0, 0, "None", <<>>, NoDraws, NoEvent)

CalInsert ==
    /\ err = "none"
    /\ event_cnt < MaxEvents
    /\ \E time \in CalTimes, type \in EventTypes :
         \E r \in {insertEvent(heap, Event(time, type, 0, event_cnt))} :
             /\ heap' = r.heap
             /\ err' = r.err
             /\ event_cnt' = event_cnt + 1
             /\ last' = Observed("insertEvent", 0, 0, last.status, heap, NoDraws,
                                 Event(time, type, 0, event_cnt))
    /\ UNCHANGED <<symbionts, sym_count, cells, clock>>

CalGetNext ==
    /\ err = "none"
    /\ \E r \in {getNextEvent(heap)} :
           /\ heap' = r.heap
           /\ err' = r.err
           /\ last' = Observed("getNextEvent", 0, 0,
                               IF heap = <<>> THEN "EMPTY_SEEN" ELSE last.status,
                               heap, NoDraws, r.ret)
    /\ UNCHANGED <<event_cnt, symbionts, sym_count, cells, clock>>

NextCal == CalInsert \/ CalGetNext

SpecCal == InitCal /\ [][NextCal]_vars

----------------------------------------------------------------------------
(* _computeSurplusAtEventEnd on its own: a symbiont in a cell, with a      *)
(* surplus of either sign (a division can leave a negative one) and rates  *)
(* drawn at the start, is projected over any of a few intervals in any of  *)
(* the states the handlers pass.                                           *)

SurplusBalances   == {Q(-1), <<-1, 2>>, Q(0), Q(1), Q(2)}
SurplusRates      == {Q(2), Q(4)}
SurplusCostRates  == {Q(1), Q(2)}
SurplusTimes      == {Q(0), Q(1)}
SurplusDurations  == {Q(0), <<1, 2>>, Q(1), Q(2)}
SurplusStates     == {"IN_G0", "IN_G1SG2M", "None"}
SurplusCoins      == Uniform01 \cup {<<3, 8>>}

InitSurplus ==
    /\ heap = <<>>
    /\ event_cnt = 0
    /\ \E b \in SurplusBalances, rate \in SurplusRates, mcr \in SurplusCostRates :
           symbionts = <<[cell |-> <<0, 0>>, photosynthate_surplus |-> b,
                          production_rate |-> rate, mitotic_cost_rate |-> mcr]>>
    /\ sym_count = 1
    /\ \E dem \in DemandDraws : cells = [q \in Positions |-> Cell(dem)]
    /\ clock \in SurplusTimes
    /\ err = "none"
    /\ last = Observed("init", 0, 0, "None", NoSymbiont, NoDraws, NoEvent)

ComputeSurplusAtEventEnd ==
    /\ err = "none"
    /\ \E duration \in SurplusDurations, state \in SurplusStates,
          p \in SurplusCoins, frac \in UniformFracs :
         \E next_time \in {RAdd(clock, duration)} :
         \E r \in {computeSurplusAtEventEnd(symbionts[1], cells, clock, next_time,
                                            state, p, frac)} :
             /\ err' = r.err
             /\ last' = Observed("computeSurplusAtEventEnd", 1, 0, "None", symbionts[1],
                                 [next_time |-> next_time, state |-> state,
                                  p |-> p, frac |-> frac], r)
    /\ UNCHANGED <<heap, event_cnt, symbionts, sym_count, cells, clock>>

NextSurplus == ComputeSurplusAtEventEnd

SpecSurplus == InitSurplus /\ [][NextSurplus]_vars

----------------------------------------------------------------------------
(* _setNextEvent on its own: the five event times of a symbiont are drawn  *)
(* at the start, infinite or finite, and the next event is set from them.  *)

NextEventTimes == {Q(1), Q(2), INFINITY}

InitNext ==
    /\ heap = <<>>
    /\ event_cnt = 0
    /\ \E g0 \in NextEventTimes, g1sg2m \in NextEventTimes, escape_t \in NextEventTimes,
          digestion_t \in NextEventTimes, denouement_t \in NextEventTimes :
           symbionts = <<[time_of_next_end_g0 |-> g0,
                          time_of_next_end_g1sg2m |-> g1sg2m,
                          time_of_escape |-> escape_t,
                          time_of_digestion |-> digestion_t,
                          time_of_denouement |-> denouement_t,
                          next_event_time |-> INFINITY,
                          next_event_type |-> "None"]>>
    /\ sym_count = 1
    /\ cells = [q \in Positions |-> Cell(Q(0))]
    /\ clock = Q(0)
    /\ err = "none"
    /\ last = Observed("init", 0, 0, "None", NoSymbiont, NoDraws, NoEvent)

SetNextEvent ==
    /\ last.op = "init"
    /\ symbionts' = <<setNextEvent(symbionts[1])>>
    /\ last' = Observed("setNextEvent", 1, 0, "None", symbionts[1], NoDraws, NoEvent)
    /\ UNCHANGED <<heap, event_cnt, sym_count, cells, clock, err>>

NextNext == SetNextEvent

SpecNext == InitNext /\ [][NextNext]_vars

----------------------------------------------------------------------------
(* _scheduleInitialEvents on its own: a symbiont just placed in a cell,    *)
(* with a surplus and rates drawn at the start and no event time set yet,  *)
(* gets its first events for any of a few draws.                           *)

ScheduleBalances   == {Q(-1), Q(0), Q(1), Q(5)}
ScheduleRates      == {Q(1), Q(2), Q(4)}
ScheduleCostRates  == {Q(0), Q(2)}
ScheduleDemands    == {Q(1), Q(3)}
ScheduleG0Draws    == G0Draws \cup {Q(10)}
ScheduleResidences == ResidenceDraws \cup {Q(20)}

InitSchedule ==
    /\ heap = <<>>
    /\ event_cnt = 0
    /\ \E b \in ScheduleBalances, rate \in ScheduleRates, mcr \in ScheduleCostRates :
           symbionts = <<[cell |-> <<0, 0>>, photosynthate_surplus |-> b,
                          production_rate |-> rate, mitotic_cost_rate |-> mcr,
                          time_of_escape |-> INFINITY,
                          time_of_digestion |-> INFINITY,
                          time_of_denouement |-> INFINITY,
                          time_of_next_end_g0 |-> INFINITY,
                          time_of_next_end_g1sg2m |-> INFINITY]>>
    /\ sym_count = 1
    /\ \E dem \in ScheduleDemands : cells = [q \in Positions |-> Cell(dem)]
    /\ clock \in SurplusTimes
    /\ err = "none"
    /\ last = Observed("init", 0, 0, "None", NoSymbiont, NoDraws, NoEvent)

ScheduleInitialEvents ==
    /\ last.op = "init"
    /\ \E residence \in ScheduleResidences, g0 \in ScheduleG0Draws,
          p \in SurplusCoins, frac \in UniformFracs :
       \E d \in {[residence |-> residence, g0 |-> g0, p |-> p, frac |-> frac]} :
       \E r \in {scheduleInitialEvents(symbionts[1], cells, clock, d)} :
           /\ symbionts' = <<r.sym>>
           /\ err' = r.err
           /\ last' = Observed("scheduleInitialEvents", 1, 0, "None", symbionts[1], d,
                               NoEvent)
    /\ UNCHANGED <<heap, event_cnt, sym_count, cells, clock>>

NextSchedule == ScheduleInitialEvents

SpecSchedule == InitSchedule /\ [][NextSchedule]_vars

----------------------------------------------------------------------------
(* _SymbiontCopy on its own, as endOfG1SG2M calls it and houses its result: *)
(* a parent that arrived in the first cell, with a surplus that is not     *)
(* negative, divides into the cell below it, and RNG.divfuzz returns any   *)
(* of a few amounts, as a fraction of the half, of either kind.            *)

SplitBalances == {<<n, 2>> : n \in 0 .. 10}

SplitParentCell == <<0, 0>>
SplitChildCell  == <<1, 0>>

InitSplit ==
    /\ heap = <<>>
    /\ event_cnt = 0
    /\ clock = Q(0)
    /\ err = "none"
    /\ last = Observed("init", 0, 0, "None", NoSymbiont, NoDraws, NoEvent)
    /\ sym_count = 1
    /\ \E dem \in DemandMaps :
       \E cs \in {[q \in Positions |-> Cell(dem[q])]} :
       \E mcr \in MCRDraws, ppr \in PPRFuzzFactors, residence \in ResidenceDraws,
          g0 \in G0Draws :
       \E r \in {generateArrival(cs, Q(0), 0, 0, 1,
                     [p_affinity |-> Q(0), which |-> 0, mcr |-> mcr, ppr |-> ppr,
                      surplus |-> Q(1), residence |-> residence, g0 |-> g0,
                      p |-> NoEscape, frac |-> Q(0)])} :
       \E b \in SplitBalances :
           /\ r.created
           /\ r.sym.cell = SplitParentCell
           /\ symbionts = <<[r.sym EXCEPT !.photosynthate_surplus = Norm(b[1], b[2])]>>
           /\ cells = r.cells

\* parent._SymbiontCopy(cell, current_time), and cell.setSymbiont(child,
\* current_time) when the copy was returned
SplitSurplus ==
    /\ last.op = "init"
    /\ \E s \in {symbionts[1]} :
       \E surplus_mut \in SurplusMutDraws :
       \E mcr_mut \in MCRMutDraws, ppr_mut \in PPRMutDraws :
       \E c_residence \in ResidenceDraws, c_g0 \in G0Draws :
       \E d0 \in {[mcr_mut |-> mcr_mut, surplus_mut |-> surplus_mut, ppr_mut |-> ppr_mut,
                   c_residence |-> c_residence, c_g0 |-> c_g0, c_p |-> NoEscape,
                   c_frac |-> Q(0)]} :
       \E r0 \in {SymbiontCopy(s, SplitChildCell, cells, clock, sym_count, d0)} :
       \E cneg \in {r0.err = "none" /\ ~IsInf(r0.child.time_of_digestion)} :
       \E c_p \in Coin(cneg) :
       \E c_frac \in Frac(cneg /\ RLt(c_p, G0EscapeProb)) :
       \E r \in {SymbiontCopy(s, SplitChildCell, cells, clock, sym_count,
                              [d0 EXCEPT !.c_p = c_p, !.c_frac = c_frac])} :
           /\ symbionts' = IF r.err = "none" THEN <<r.parent, r.child>> ELSE <<r.parent>>
           /\ cells' = IF r.err = "none"
                       THEN [cells EXCEPT ![SplitChildCell] = setSymbiont(@, 2, clock)]
                       ELSE cells
           /\ sym_count' = sym_count + 1
           /\ err' = r.err
           /\ last' = Observed("splitSurplus", 1, IF r.err = "none" THEN 2 ELSE 0, "None",
                               s, [surplus_mut |-> surplus_mut], NoEvent)
    /\ UNCHANGED <<heap, event_cnt, clock>>

NextSplit == SplitSurplus

SpecSplit == InitSplit /\ [][NextSplit]_vars

----------------------------------------------------------------------------
(* generateArrival on its own: arrivals from the pool in quick succession, *)
(* before any event of a resident is due, until the grid is full and past. *)

ArrivalTimes == {Q(0), <<1, 4>>}

InitArrival ==
    /\ \E dem \in DemandMaps : cells = [q \in Positions |-> Cell(dem[q])]
    /\ heap = <<>>
    /\ event_cnt = 0
    /\ symbionts = <<>>
    /\ sym_count = 0
    /\ clock = Q(0)
    /\ err = "none"
    /\ last = Observed("init", 0, 0, "None", NoSymbiont, NoDraws, NoEvent)

GenerateArrival ==
    /\ err = "none"
    /\ \E t \in {x \in ArrivalTimes : RLe(clock, x)}, ref \in {Len(symbionts) + 1},
          n \in {numResident(cells)} :
       \E p_affinity \in Coin(n # NUM_ROWS * NUM_COLS) :
       \E enters \in {n # NUM_ROWS * NUM_COLS /\ determinePhagocytosis(TRUE, p_affinity)} :
       \E which \in IF enters THEN 0 .. (Len(openCells(cells)) - 1) ELSE {0} :
       \E mcr \in IF enters THEN MCRDraws ELSE {Q(0)} :
       \E ppr \in IF enters THEN PPRFuzzFactors ELSE {Q(0)} :
       \E surplus \in IF enters THEN {x \in SurplusDraws : RLe(x, MaxInitialSurplus)}
                                ELSE {Q(0)} :
       \E residence \in IF enters THEN ResidenceDraws ELSE {Q(0)} :
       \E g0 \in IF enters THEN G0Draws ELSE {Q(0)} :
       \E d0 \in {[p_affinity |-> p_affinity, which |-> which, mcr |-> mcr, ppr |-> ppr,
                   surplus |-> surplus, residence |-> residence, g0 |-> g0,
                   p |-> NoEscape, frac |-> Q(0)]} :
       \E r0 \in {generateArrival(cells, t, n, sym_count, ref, d0)} :
       \E neg \in {r0.created /\ ~IsInf(r0.sym.time_of_digestion)} :
       \E p \in Coin(neg) :
       \E frac \in Frac(neg /\ RLt(p, G0EscapeProb)) :
       \E r \in {generateArrival(cells, t, n, sym_count, ref,
                                 [d0 EXCEPT !.p = p, !.frac = frac])} :
           /\ clock' = t
           /\ cells' = r.cells
           /\ symbionts' = IF r.created THEN Append(symbionts, r.sym) ELSE symbionts
           /\ sym_count' = IF Constructed(r) THEN sym_count + 1 ELSE sym_count
           /\ err' = r.err
           /\ last' = Observed("generateArrival", IF r.created THEN ref ELSE 0, 0, "None",
                               NoSymbiont, [num_symbionts |-> n], NoEvent)
    /\ UNCHANGED <<heap, event_cnt>>

NextArrival == GenerateArrival

SpecArrival == InitArrival /\ [][NextArrival]_vars

----------------------------------------------------------------------------
(* The two handlers of the cell cycle dispatched to a resident whatever    *)
(* its phase: one symbiont has arrived, and at the time of its next event  *)
(* either handler is called on it.  One division is explored; after it     *)
(* the end of G1SG2M is called only out of phase.                          *)

InitDispatch ==
    /\ heap = <<>>
    /\ event_cnt = 0
    /\ clock = Q(0)
    /\ err = "none"
    /\ last = Observed("init", 0, 0, "None", NoSymbiont, NoDraws, NoEvent)
    /\ sym_count = 1
    /\ \E dem \in DemandMaps :
       \E cs \in {[q \in Positions |-> Cell(dem[q])]} :
       \E which \in 0 .. (Len(openCells(cs)) - 1) :
       \E mcr \in MCRDraws, ppr \in PPRFuzzFactors, residence \in ResidenceDraws,
          g0 \in G0Draws :
       \E surplus \in {x \in SurplusDraws : RLe(x, MaxInitialSurplus)} :
       \E p \in Uniform01, frac \in UniformFracs :
       \E r \in {generateArrival(cs, Q(0), 0, 0, 1,
                     [p_affinity |-> Q(0), which |-> which, mcr |-> mcr, ppr |-> ppr,
                      surplus |-> surplus, residence |-> residence, g0 |-> g0,
                      p |-> p, frac |-> frac])} :
           /\ r.created
           /\ symbionts = <<r.sym>>
           /\ cells = r.cells

\* the symbiont object ref is in a cell and its next event is due within the run,
\* at a time a float holds exactly: the handlers are called where the balances
\* they project are computed without rounding
Due(ref) ==
    /\ symbionts[ref].cell # NoCell
    /\ ~IsInf(symbionts[ref].next_event_time)
    /\ Representable(symbionts[ref].next_event_time)
    /\ RLe(symbionts[ref].next_event_time, MAX_SIMULATED_TIME)

CallEndOfG0 ==
    /\ err = "none"
    /\ \E ref \in {1} :
           /\ Due(ref)
           /\ DispatchEndOfG0([ret  |-> Event(symbionts[ref].next_event_time, "END_G0",
                                              ref, event_cnt),
                               heap |-> heap, err |-> "none"])

CallEndOfG1SG2M ==
    /\ err = "none"
    /\ sym_count < MaxSymbionts
    /\ Len(symbionts) = 1 \/ symbionts[1].prev_event_type # "END_G0"
    /\ \E ref \in {1} :
           /\ Due(ref)
           /\ DispatchEndOfG1SG2M([ret  |-> Event(symbionts[ref].next_event_time,
                                                  "END_G1SG2M", ref, event_cnt),
                                   heap |-> heap, err |-> "none"])

NextDispatch == CallEndOfG0 \/ CallEndOfG1SG2M

SpecDispatch == InitDispatch /\ [][NextDispatch]_vars

\* every balance, rate and time a handler projects from is held exactly by a
\* float: the times of the phase ends and of the calls, and what the symbionts
\* carry between them (an invariant of Spec, SpecSplit, SpecArrival and
\* SpecDispatch; SpecSurplus and SpecSchedule draw such inputs)
ProjectionsExact ==
    /\ Representable(clock)
    /\ \A i \in 1 .. Len(symbionts) :
           /\ Representable(symbionts[i].photosynthate_surplus)
           /\ Representable(symbionts[i].production_rate)
           /\ Representable(symbionts[i].prev_event_time)
           /\ IsInf(symbionts[i].time_of_next_end_g0)
                  \/ Representable(symbionts[i].time_of_next_end_g0)
           /\ IsInf(symbionts[i].time_of_next_end_g1sg2m)
                  \/ Representable(symbionts[i].time_of_next_end_g1sg2m)

----------------------------------------------------------------------------
(* _checkForOpenAdjacentCell on its own: a grid of any of a few dimensions *)
(* with the parent in any cell and any of the other cells occupied, and    *)
(* the search run with any of a few shuffles and border draws.             *)

SearchDimensions == {1, 2, 3} \X {1, 2, 3}

GridPositions(num_rows, num_cols) == (0 .. num_rows - 1) \X (0 .. num_cols - 1)

\* the dimensions of a grid of cells
GridRows(cs) == Cardinality({q[1] : q \in DOMAIN cs})
GridCols(cs) == Cardinality({q[2] : q \in DOMAIN cs})

\* the offsets rotated by k places
Rotate(q, k) == [i \in 1 .. Len(q) |-> q[((i - 1 + k) % Len(q)) + 1]]

SearchShuffles ==
    ShuffleDraws \cup {Rotate(MoorePositions, 3), Rotate(Reverse(MoorePositions), 5)}

SearchBorderDraws == {Q(0), <<3, 8>>, <<1, 2>>}

InitSearch ==
    /\ heap = <<>>
    /\ event_cnt = 0
    /\ \E dim \in SearchDimensions :
       \E pos \in GridPositions(dim[1], dim[2]) :
       \E others \in SUBSET (GridPositions(dim[1], dim[2]) \ {pos}) :
           /\ symbionts = <<[cell |-> pos]>>
           /\ cells = [q \in GridPositions(dim[1], dim[2]) |->
                          IF q = pos THEN setSymbiont(Cell(Q(3)), 1, Q(0))
                          ELSE IF q \in others THEN setSymbiont(Cell(Q(3)), 2, Q(0))
                          ELSE Cell(Q(3))]
    /\ sym_count = 1
    /\ clock = Q(0)
    /\ err = "none"
    /\ last = Observed("init", 0, 0, "None", NoSymbiont, NoDraws, NoEvent)

CheckForOpenAdjacentCell ==
    /\ err = "none"
    /\ \E shuffle \in SearchShuffles, p \in SearchBorderDraws :
       \E r \in {checkForOpenAdjacentCellIn(GridRows(cells), GridCols(cells),
                                            symbionts[1], cells, shuffle, p)} :
           /\ err' = r.err
           /\ last' = Observed("checkForOpenAdjacentCell", 1, 0, "None", symbionts[1],
                               [shuffle |-> shuffle, p |-> p], r)
    /\ UNCHANGED <<heap, event_cnt, symbionts, sym_count, cells, clock>>

NextSearch == CheckForOpenAdjacentCell

SpecSearch == InitSearch /\ [][NextSearch]_vars

----------------------------------------------------------------------------
(* Properties                                                              *)

\* the symbiont events pending in the calendar
PendingOf(ref) == {i \in 1 .. Len(heap) : heap[i].symbiont = ref}

\* C1: at every point of a run the calendar holds at most one pending event
\* per agent identity
SingleLiveEvent ==
    \A i, j \in 1 .. Len(heap) :
        (i # j /\ heap[i].symbiont # 0 /\ heap[j].symbiont # 0)
            => symbionts[heap[i].symbiont].id # symbionts[heap[j].symbiont].id

\* a division after which the parent and the child each have their event pending
SingleLiveEventWitness ==
    /\ last.op = "END_G1SG2M" /\ last.status = "BOTH_STAY" /\ err = "none"
    /\ PendingOf(last.ref) # {} /\ PendingOf(last.child) # {}

\* C2: each getNextEvent on a non-empty list removes and returns the pending
\* event whose (time, kind priority, creation number) key is the smallest
ExtractsSmallestKey ==
    (last.op = "getNextEvent" /\ last.pre # <<>>) =>
        /\ err = "none"
        /\ \E i \in 1 .. Len(last.pre) : last.pre[i] = last.ret
        /\ \A i \in 1 .. Len(last.pre) :
               last.pre[i] = last.ret \/ KeyLt(last.ret, last.pre[i]) = "True"
        /\ Len(heap) = Len(last.pre) - 1
        /\ \A i \in 1 .. Len(heap) : heap[i] # last.ret

\* C3: comparing two pending events succeeds and orders them by time, then by
\* kind priority, then by creation number
ComparisonFollowsKindPriority ==
    \A i, j \in 1 .. Len(heap) :
        i # j => EventLt(heap[i], heap[j]) = KeyLt(heap[i], heap[j])

\* C4: getNextEvent on an empty list returns None without an error and leaves
\* the list empty, and later inserts and extractions work on the list
EmptyExtractionIsHarmless ==
    /\ (last.op = "getNextEvent" /\ last.pre = <<>>) =>
           (err = "none" /\ last.ret = NoEvent /\ heap = <<>>)
    /\ (last.op = "insertEvent" /\ last.status = "EMPTY_SEEN") =>
           /\ Len(heap) = Len(last.pre) + 1
           /\ \E i \in 1 .. Len(heap) : heap[i] = last.ret
    /\ (last.op = "getNextEvent" /\ last.status = "EMPTY_SEEN" /\ last.pre # <<>>
            /\ err = "none") =>
           /\ Len(heap) = Len(last.pre) - 1
           /\ \E i \in 1 .. Len(last.pre) : last.pre[i] = last.ret

\* an event inserted after an extraction from the empty list is extracted
EmptyExtractionWitness ==
    /\ last.op = "getNextEvent" /\ last.status = "EMPTY_SEEN" /\ err = "none"
    /\ Len(last.pre) = 1 /\ last.ret = last.pre[1] /\ heap = <<>>

\* a division has just been carried out
Divided == last.op = "END_G1SG2M" /\ last.status # "None"

\* the parent's balance when its division starts: the balance at its previous
\* event plus what the phase that ends produced, less the demand and the cost
BalanceBeforeSplit ==
    RAdd(last.pre.photosynthate_surplus,
         RMul(RSub(clock, last.pre.prev_event_time),
              RSub(RSub(last.pre.production_rate, cells[last.pre.cell].demand),
                   last.pre.mitotic_cost_rate)))

BalanceAfterSplit ==
    RAdd(symbionts[last.child].photosynthate_surplus,
         symbionts[last.ref].photosynthate_surplus)

\* the amount RNG.divfuzz returned for the split
MutationAmount == divfuzz(RDiv(BalanceBeforeSplit, Q(2)), last.d.surplus_mut).fuzzamt

\* C5 (as stated): after a division the balances of child and parent add up to
\* the parent's balance before the split plus or minus the mutation amount
SplitDiffersByMutationAmount ==
    Divided =>
        BalanceAfterSplit =
            IF last.d.surplus_mut.mutation = "DELETERIOUS"
            THEN RSub(BalanceBeforeSplit, MutationAmount)
            ELSE IF last.d.surplus_mut.mutation = "BENEFICIAL"
            THEN RAdd(BalanceBeforeSplit, MutationAmount)
            ELSE BalanceBeforeSplit

\* C5 (amended): after a division the balances of child and parent add up to
\* exactly the parent's balance before the split; the mutation amount only
\* moves the child's share away from the half
SplitConservesBalance ==
    Divided =>
        /\ BalanceAfterSplit = BalanceBeforeSplit
        /\ symbionts[last.child].photosynthate_surplus =
               fuzzedHalf(RDiv(BalanceBeforeSplit, Q(2)), last.d.surplus_mut)

\* a division with a mutation of the split that is not zero
SplitConservesBalanceWitness ==
    /\ Divided
    /\ last.d.surplus_mut.mutation # "NO_MUTATION"
    /\ ~RIsZero(MutationAmount)

\* C6: after a digestion or an escape is handled the agent's balance is 0
TerminalBalanceIsZero ==
    last.op \in {"DIGESTION", "ESCAPE"} =>
        symbionts[last.ref].photosynthate_surplus = Q(0)

\* a digestion of an agent whose balance was not 0 at its previous event
TerminalBalanceWitness ==
    /\ last.op = "DIGESTION"
    /\ ~RIsZero(last.pre.photosynthate_surplus)
    /\ symbionts[last.ref].photosynthate_surplus = Q(0)

\* the balance a departing agent has built up by the time it departs
BalanceAtDeparture ==
    RAdd(last.pre.photosynthate_surplus,
         RMul(RSub(clock, last.pre.prev_event_time),
              RSub(last.pre.production_rate, cells[last.pre.cell].demand)))

\* C7 (as stated): after a departure is handled the agent is removed from its
\* slot and its balance is 0
DepartureBalanceIsZero ==
    (last.op = "DENOUEMENT" /\ err = "none") =>
        /\ ~cells[last.pre.cell].occupied
        /\ cells[last.pre.cell].symbiont = 0
        /\ symbionts[last.ref].photosynthate_surplus = Q(0)

\* C7 (amended): after a departure is handled the agent is removed from its
\* slot and its balance is the balance projected to the departure time from
\* production and demand
DepartureKeepsBalance ==
    (last.op = "DENOUEMENT" /\ err = "none") =>
        /\ ~cells[last.pre.cell].occupied
        /\ cells[last.pre.cell].symbiont = 0
        /\ symbionts[last.ref].photosynthate_surplus = BalanceAtDeparture

\* a departure that leaves the agent with a balance that is not 0
DepartureKeepsBalanceWitness ==
    /\ last.op = "DENOUEMENT" /\ err = "none"
    /\ ~cells[last.pre.cell].occupied
    /\ ~RIsZero(symbionts[last.ref].photosynthate_surplus)

\* C8 (as stated): between dispatches exactly one of an agent's end-of-G0 time
\* and end-of-G1SG2M time is finite
ExactlyOnePhaseEndFinite ==
    err = "none" =>
        \A i \in 1 .. Len(symbionts) :
            IsInf(symbionts[i].time_of_next_end_g0)
                # IsInf(symbionts[i].time_of_next_end_g1sg2m)

\* C8 (amended): between dispatches at most one of the two times is finite,
\* and both are infinite only for an agent whose digestion has been scheduled
\* or that has no slot
AtMostOnePhaseEndFinite ==
    err = "none" =>
        \A i \in 1 .. Len(symbionts) :
            /\ IsInf(symbionts[i].time_of_next_end_g0)
                   \/ IsInf(symbionts[i].time_of_next_end_g1sg2m)
            /\ (IsInf(symbionts[i].time_of_next_end_g0)
                    /\ IsInf(symbionts[i].time_of_next_end_g1sg2m))
                   => (~IsInf(symbionts[i].time_of_digestion)
                           \/ symbionts[i].cell = NoCell)

\* the end of G0 of an agent whose digestion is scheduled: both times infinite
AtMostOnePhaseEndFiniteWitness ==
    /\ last.op = "END_G0" /\ err = "none"
    /\ IsInf(symbionts[last.ref].time_of_next_end_g0)
    /\ IsInf(symbionts[last.ref].time_of_next_end_g1sg2m)
    /\ ~IsInf(symbionts[last.ref].time_of_digestion)

\* C9: no agent is held by two slots, every slot holds at most one agent, and
\* every agent held by a slot references that slot as its current slot
SlotsAndAgentsAgree ==
    /\ \A q \in Positions :
           cells[q].occupied =>
               /\ cells[q].symbiont \in 1 .. Len(symbionts)
               /\ symbionts[cells[q].symbiont].cell = q
    /\ \A q \in Positions : ~cells[q].occupied => cells[q].symbiont = 0
    /\ \A q1, q2 \in Positions :
           (q1 # q2 /\ cells[q1].occupied /\ cells[q2].occupied) =>
               /\ cells[q1].symbiont # cells[q2].symbiont
               /\ symbionts[cells[q1].symbiont].id # symbionts[cells[q2].symbiont].id

\* a division that moved the parent to another slot and left the child in
\* the parent's slot
SlotsAndAgentsAgreeWitness ==
    /\ last.op = "END_G1SG2M" /\ last.status = "BOTH_STAY"
    /\ symbionts[last.ref].cell # last.pre.cell
    /\ cells[last.pre.cell].symbiont = last.child
    /\ cells[symbionts[last.ref].cell].symbiont = last.ref

\* C10: after a digestion, an escape or a departure the slot holds no agent
\* and the agent's current slot is none
RemovalClearsBothSides ==
    (last.op \in {"DIGESTION", "ESCAPE", "DENOUEMENT"} /\ err = "none") =>
        /\ ~cells[last.pre.cell].occupied
        /\ cells[last.pre.cell].symbiont = 0
        /\ symbionts[last.ref].cell = NoCell

----------------------------------------------------------------------------
(* The projection of the surplus, checked under SpecSurplus.               *)

\* the last step was a projection that returned
Projected == last.op = "computeSurplusAtEventEnd" /\ last.ret.err = "none"

\* the length of the projected interval
ProjectedDuration == RSub(last.d.next_time, clock)

\* production less demand less cost, the cost being the mitotic cost rate in
\* G1SG2M and nothing otherwise
ProjectedNetRate ==
    RSub(RSub(last.pre.production_rate, cells[last.pre.cell].demand),
         IF last.d.state = "IN_G1SG2M" THEN last.pre.mitotic_cost_rate ELSE Q(0))

\* C11: the projection returns the stored surplus plus the length of the
\* interval times (production rate - demand rate - cost rate), the cost rate
\* being the mitotic cost rate when the state is IN_G1SG2M and 0 otherwise, and
\* the symbiont's stored surplus is what it was before the projection
ProjectionIsLinear ==
    Projected =>
        /\ last.ret.surplus_at_end =
               RAdd(last.pre.photosynthate_surplus,
                    RMul(ProjectedDuration, ProjectedNetRate))
        /\ symbionts[1].photosynthate_surplus = last.pre.photosynthate_surplus

ProjectionIsLinearWitness ==
    /\ Projected
    /\ last.d.state = "IN_G1SG2M"
    /\ ProjectedDuration = Q(2)
    /\ last.pre.photosynthate_surplus = Q(2)
    /\ last.ret.surplus_at_end = Q(0)

\* C12: when the interval has positive length and the projected surplus is
\* non-negative, zero included, the projection returns no digestion time and
\* no escape time and draws no escape coin
NonNegativeProjectionHasNoExit ==
    (/\ last.op = "computeSurplusAtEventEnd"
     /\ ProjectedDuration[1] > 0
     /\ last.ret.surplus_at_end[1] >= 0)
    => /\ last.ret.err = "none"
       /\ last.ret.t_d = NoneTime
       /\ last.ret.t_ee = NoneTime
       /\ ~last.ret.coin

NonNegativeProjectionHasNoExitWitness ==
    /\ Projected
    /\ ProjectedDuration[1] > 0
    /\ last.pre.photosynthate_surplus[1] > 0
    /\ last.ret.surplus_at_end = Q(0)
    /\ last.ret.t_d = NoneTime
    /\ ~last.ret.coin

\* the projected surplus is negative over an interval of positive length
ProjectedNegative ==
    /\ Projected
    /\ ProjectedDuration[1] > 0
    /\ last.ret.surplus_at_end[1] < 0

\* the digestion time puts the linear surplus at exactly zero
CrossingIsZero ==
    RAdd(last.pre.photosynthate_surplus,
         RMul(RSub(last.ret.t_d, clock), ProjectedNetRate)) = Q(0)

\* C13 (as stated): when the projected surplus is negative the digestion time
\* puts the linear surplus at exactly zero and lies strictly between the
\* current time and the end of the interval
CrossingStrictlyInside ==
    ProjectedNegative =>
        /\ CrossingIsZero
        /\ RLt(clock, last.ret.t_d)
        /\ RLt(last.ret.t_d, last.d.next_time)

\* a projection over an interval of positive length, from a negative surplus
\* at a net rate of zero: the surplus stays negative and never crosses zero
NoCrossingExists ==
    /\ last.op = "computeSurplusAtEventEnd"
    /\ ProjectedDuration[1] > 0
    /\ last.pre.photosynthate_surplus[1] < 0
    /\ ProjectedNetRate = Q(0)
    /\ last.d.state # "None"

\* C13 (amended): when the projected surplus is negative the digestion time
\* puts the linear surplus at exactly zero; it lies strictly between the
\* current time and the end of the interval when the stored surplus is
\* positive, is the current time when the stored surplus is 0, and lies outside
\* the interval when the stored surplus is negative: before the current time
\* at a negative net rate, after the end of the interval at a positive one; at
\* a net rate of zero there is no such time and the division by the rate raises
CrossingWithinInterval ==
    /\ ProjectedNegative =>
           /\ CrossingIsZero
           /\ last.pre.photosynthate_surplus[1] > 0 =>
                  RLt(clock, last.ret.t_d) /\ RLt(last.ret.t_d, last.d.next_time)
           /\ last.pre.photosynthate_surplus[1] = 0 => last.ret.t_d = clock
           /\ (last.pre.photosynthate_surplus[1] < 0 /\ ProjectedNetRate[1] < 0) =>
                  RLt(last.ret.t_d, clock)
           /\ (last.pre.photosynthate_surplus[1] < 0 /\ ProjectedNetRate[1] > 0) =>
                  RLt(last.d.next_time, last.ret.t_d)
    /\ NoCrossingExists => last.ret.err = "ZeroDivisionError"

CrossingWithinIntervalWitness ==
    /\ ProjectedNegative
    /\ last.pre.photosynthate_surplus = <<-1, 2>>
    /\ ProjectedNetRate = Q(-1)
    /\ last.ret.t_d = RSub(clock, <<1, 2>>)

----------------------------------------------------------------------------
(* The handlers of the two phase ends, checked under Spec.                 *)

\* the last step dispatched an event of this kind and its handler returned
Handled(kind) == last.op = kind /\ err \in {"none", "TypeError"}

\* the surplus of the symbiont after END_G0 projected over the drawn G1SG2M
\* duration with the mitotic cost
PhaseBProjection ==
    RAdd(symbionts[last.ref].photosynthate_surplus,
         RMul(last.d.g1sg2m,
              RSub(RSub(symbionts[last.ref].production_rate,
                        cells[symbionts[last.ref].cell].demand),
                   symbionts[last.ref].mitotic_cost_rate)))

\* C15: after END_G0 is handled, if the surplus projected over the drawn
\* G1SG2M duration with the mitotic cost is negative then a digestion is
\* scheduled, an escape is scheduled exactly when the coin is below the G1SG2M
\* escape probability, and no END_G1SG2M is scheduled; otherwise END_G1SG2M is
\* scheduled at the current time plus the duration and neither a digestion nor
\* an escape is scheduled.  No symbiont with a digestion scheduled divides.
EndOfG0SchedulesDivisionOrExit ==
    /\ Handled("END_G0") =>
          IF PhaseBProjection[1] < 0
          THEN /\ ~IsInf(symbionts[last.ref].time_of_digestion)
               /\ ~IsInf(symbionts[last.ref].time_of_escape)
                      <=> RLt(last.d.p, G1SG2MEscapeProb)
               /\ IsInf(symbionts[last.ref].time_of_next_end_g1sg2m)
               /\ symbionts[last.ref].next_event_type # "END_G1SG2M"
          ELSE /\ symbionts[last.ref].time_of_next_end_g1sg2m
                      = RAdd(clock, last.d.g1sg2m)
               /\ IsInf(symbionts[last.ref].time_of_digestion)
               /\ IsInf(symbionts[last.ref].time_of_escape)
    /\ last.op = "END_G1SG2M" => IsInf(last.pre.time_of_digestion)

EndOfG0SchedulesDivisionOrExitWitness ==
    /\ Handled("END_G0")
    /\ PhaseBProjection[1] < 0
    /\ RLt(clock, symbionts[last.ref].time_of_escape)
    /\ RLt(symbionts[last.ref].time_of_escape, symbionts[last.ref].time_of_digestion)
    /\ ~IsInf(symbionts[last.ref].time_of_digestion)

\* the surplus of the dispatched symbiont recomputed from its previous event
\* to the current time, with the mitotic cost when the phase ending is G1SG2M
RecomputedSurplus ==
    RAdd(last.pre.photosynthate_surplus,
         RMul(RSub(clock, last.pre.prev_event_time),
              RSub(RSub(last.pre.production_rate, cells[last.pre.cell].demand),
                   IF last.op = "END_G1SG2M" THEN last.pre.mitotic_cost_rate
                                             ELSE Q(0))))

\* C16: whenever END_G0 or END_G1SG2M is dispatched to a symbiont, the surplus
\* recomputed from its previous event to the current time is non-negative and
\* no assertion of the handler fails
SanityAssertionsHold ==
    last.op \in {"END_G0", "END_G1SG2M"} =>
        /\ RecomputedSurplus[1] >= 0
        /\ err # "AssertionError"

----------------------------------------------------------------------------
(* The next event of a symbiont.                                           *)

\* the candidate kinds in the order _setNextEvent examines them
CandidateOrder == <<"END_G0", "END_G1SG2M", "ESCAPE", "DIGESTION", "DENOUEMENT">>

\* the candidate time a symbiont holds for a kind
CandidateTime(s, kind) ==
    CASE kind = "END_G0"     -> s.time_of_next_end_g0
      [] kind = "END_G1SG2M" -> s.time_of_next_end_g1sg2m
      [] kind = "ESCAPE"     -> s.time_of_escape
      [] kind = "DIGESTION"  -> s.time_of_digestion
      [] kind = "DENOUEMENT" -> s.time_of_denouement

\* the positions in CandidateOrder of the finite candidates no later than
\* any other candidate
TiedAtMinimum(s) ==
    {i \in 1 .. 5 :
        /\ ~IsInf(CandidateTime(s, CandidateOrder[i]))
        /\ \A j \in 1 .. 5 : RLe(CandidateTime(s, CandidateOrder[i]),
                                 CandidateTime(s, CandidateOrder[j]))}

\* C17 (under SpecNext): the next event set from the five candidate times is
\* the finite candidate of the earliest time, the first in the order END_G0,
\* END_G1SG2M, ESCAPE, DIGESTION, DENOUEMENT among those of that time; when no
\* candidate is finite the next event time is infinite
NextEventIsEarliestCandidate ==
    last.op = "setNextEvent" =>
        IF TiedAtMinimum(symbionts[1]) = {}
        THEN IsInf(symbionts[1].next_event_time)
        ELSE \E i \in TiedAtMinimum(symbionts[1]) :
                /\ \A j \in TiedAtMinimum(symbionts[1]) : i <= j
                /\ symbionts[1].next_event_type = CandidateOrder[i]
                /\ symbionts[1].next_event_time
                       = CandidateTime(symbionts[1], CandidateOrder[i])

NextEventIsEarliestCandidateWitness ==
    /\ last.op = "setNextEvent"
    /\ TiedAtMinimum(symbionts[1]) = {2, 3, 5}
    /\ symbionts[1].time_of_digestion = Q(2)
    /\ symbionts[1].next_event_type = "END_G1SG2M"
    /\ symbionts[1].next_event_time = Q(1)

\* the kinds of a symbiont's candidates tied at the minimum
TiedKinds(s) == {CandidateOrder[i] : i \in TiedAtMinimum(s)}

----------------------------------------------------------------------------
(* The resolution of a mitosis, checked under Spec.                        *)

\* the statuses in which neither the parent nor the child goes outside the grid
WithinGrid == {"BOTH_STAY", "PARENT_NO_AFFINITY", "CHILD_NO_AFFINITY",
               "PARENT_EVICTED", "CHILD_EVICTED"}

\* the symbiont objects whose cell is the cell the parent had at the dispatch
HoldersOfParentCell ==
    {i \in 1 .. Len(symbionts) :
        i \in {last.ref, last.child} /\ symbionts[i].cell = last.pre.cell}

\* C19: after a mitosis in which nobody goes outside the grid, exactly one of
\* the parent and the child has the parent's original cell as its cell, and
\* that cell is occupied and holds that symbiont
OneOfTwoKeepsParentCell ==
    (last.op = "END_G1SG2M" /\ last.status \in WithinGrid) =>
        /\ Cardinality(HoldersOfParentCell) = 1
        /\ cells[last.pre.cell].occupied
        /\ cells[last.pre.cell].symbiont \in HoldersOfParentCell

OneOfTwoKeepsParentCellWitness ==
    /\ last.op = "END_G1SG2M"
    /\ last.status = "BOTH_STAY"
    /\ HoldersOfParentCell = {last.child}
    /\ symbionts[last.ref].cell \in Positions
    /\ cells[symbionts[last.ref].cell].symbiont = last.ref

\* C20: after a mitosis whose search found no candidate cell, if the eviction
\* draw is below the parent eviction probability the parent has no cell, the
\* child is in the parent's former cell and the parent has no next end of G0;
\* otherwise the child has no cell and the parent is still in its cell
NoCandidateEvictsOne ==
    (last.op = "END_G1SG2M" /\ last.d.open = NoCell) =>
        /\ err \in {"none", "TypeError"}
        /\ IF RLt(last.d.p_evict, ParentEvictionProb)
           THEN /\ last.status = "PARENT_EVICTED"
                /\ symbionts[last.ref].cell = NoCell
                /\ symbionts[last.child].cell = last.pre.cell
                /\ cells[last.pre.cell].symbiont = last.child
                /\ cells[last.pre.cell].occupied
                /\ IsInf(symbionts[last.ref].time_of_next_end_g0)
           ELSE /\ last.status = "CHILD_EVICTED"
                /\ symbionts[last.child].cell = NoCell
                /\ symbionts[last.ref].cell = last.pre.cell
                /\ cells[last.pre.cell].symbiont = last.ref
                /\ cells[last.pre.cell].occupied

NoCandidateEvictsOneWitness ==
    /\ last.op = "END_G1SG2M"
    /\ last.d.open = NoCell
    /\ last.status = "PARENT_EVICTED"
    /\ symbionts[last.child].cell = last.pre.cell
    /\ symbionts[last.ref].cell = NoCell

\* who moves at the last mitosis, by the eviction draw, and who stays
MitosisMover ==
    IF RLt(last.d.p_evict, ParentEvictionProb) THEN last.ref ELSE last.child
MitosisStayer ==
    IF RLt(last.d.p_evict, ParentEvictionProb) THEN last.child ELSE last.ref

OutsideResolution ==
    /\ err' \in {"none", "TypeError"}
    /\ last'.child # 0
    /\ \A q \in Positions \ {last'.pre.cell} : cells'[q] = cells[q]
    /\ cells'[last'.pre.cell].occupied
    /\ IF RLt(last'.d.p_evict, ParentEvictionProb)
       THEN /\ last'.status = "PARENT_INFECTS_OUTSIDE"
            /\ symbionts'[last'.ref].cell = NoCell
            /\ symbionts'[last'.child].cell = last'.pre.cell
            /\ cells'[last'.pre.cell].symbiont = last'.child
       ELSE /\ last'.status = "CHILD_INFECTS_OUTSIDE"
            /\ symbionts'[last'.child].cell = NoCell
            /\ symbionts'[last'.ref].cell = last'.pre.cell
            /\ cells'[last'.pre.cell].symbiont = last'.ref

\* C22: in every step that resolves a mitosis whose candidate is outside the
\* grid, if the eviction draw is below the parent eviction probability the
\* parent ends with no cell and the child is in the parent's cell, otherwise
\* the child has no cell and the parent is still in its cell; every other cell
\* of the grid is what it was before the step
OutsideCandidateMovesOneOut ==
    [][(last'.op = "END_G1SG2M" /\ last'.d.open = OutsideCell) => OutsideResolution]_vars

OutsideCandidateMovesOneOutWitness ==
    /\ last.op = "END_G1SG2M"
    /\ last.d.open = OutsideCell
    /\ last.status = "PARENT_INFECTS_OUTSIDE"
    /\ symbionts[last.ref].cell = NoCell
    /\ cells[last.pre.cell].symbiont = last.child
    /\ \E q \in Positions \ {last.pre.cell} : cells[q].occupied

\* the parent's surplus after the split projected over a G0 of length g0 in
\* the cell the parent has after the mitosis
ParentG0Projection(g0) ==
    RAdd(symbionts[last.ref].photosynthate_surplus,
         RMul(g0, RSub(symbionts[last.ref].production_rate,
                       cells[symbionts[last.ref].cell].demand)))

SlotlessParentReportsNoEvent ==
    (last.op = "END_G1SG2M" /\ last.child # 0 /\ symbionts[last.ref].cell = NoCell) =>
        /\ IsInf(symbiontNextEvent(symbionts[last.ref])[1])
        /\ PendingOf(last.ref) = {}

\* C25: a child made without a cell has no finite event time of any kind and
\* reports a next event of no finite time
SlotlessChildReportsNoEvent ==
    (last.op = "END_G1SG2M" /\ last.child # 0 /\ symbionts[last.child].cell = NoCell) =>
        /\ \A i \in 1 .. 5 :
               IsInf(CandidateTime(symbionts[last.child], CandidateOrder[i]))
        /\ IsInf(symbiontNextEvent(symbionts[last.child])[1])
        /\ PendingOf(last.child) = {}

----------------------------------------------------------------------------
(* The search for an open adjacent cell, checked under SpecSearch.         *)

\* the last step was a search
Searched == last.op = "checkForOpenAdjacentCell"

\* the cells of the grid in the Moore neighbourhood of the parent's cell: rows
\* do not wrap and columns do
SearchNeighbours ==
    {q \in DOMAIN cells :
        \E dr \in -1 .. 1, dc \in -1 .. 1 :
            /\ <<dr, dc>> # <<0, 0>>
            /\ q[1] = last.pre.cell[1] + dr
            /\ q[2] = (last.pre.cell[2] + dc) % GridCols(cells)}

\* the coordinates the search may look up: those of the shuffled offsets whose
\* row the search does not skip
SearchLookups ==
    {<<last.pre.cell[1] + last.d.shuffle[i][1],
       wrapColumn(GridCols(cells), last.pre.cell[2] + last.d.shuffle[i][2])>> :
        i \in {j \in 1 .. Len(last.d.shuffle) :
                  ~rowOutside(GridRows(cells), last.pre.cell[1] + last.d.shuffle[j][1])}}

\* C26: whatever the dimensions of the grid and the parent's cell, the search
\* looks up only cells of the grid and raises no error, and a cell it returns is a cell of the grid in
\* the parent's row or a row next to it and in a column one step, wrapping,
\* from the parent's
SearchStaysInGrid ==
    Searched =>
        /\ SearchLookups \subseteq DOMAIN cells
        /\ last.ret.err = "none"
        /\ last.ret.cell \in DOMAIN cells \cup {NoCell, OutsideCell}
        /\ last.ret.cell \in DOMAIN cells =>
               /\ last.ret.cell[1] - last.pre.cell[1] \in -1 .. 1
               /\ \E dc \in -1 .. 1 :
                      last.ret.cell[2] = (last.pre.cell[2] + dc) % GridCols(cells)

SearchStaysInGridWitness ==
    /\ Searched
    /\ GridRows(cells) = 3 /\ GridCols(cells) = 3
    /\ last.pre.cell = <<0, 0>>
    /\ last.ret.cell = <<1, 2>>
    /\ cells[<<0, 1>>].occupied

\* C27: a cell the search returns is unoccupied, is in the Moore neighbourhood
\* of the parent's cell and is not the parent's cell; the search returns no
\* cell exactly when every cell of that neighbourhood is occupied; the parent
\* is what it was before the search
SearchReturnsOpenNeighbour ==
    Searched =>
        /\ last.ret.cell \in DOMAIN cells =>
               /\ ~cells[last.ret.cell].occupied
               /\ last.ret.cell \in SearchNeighbours
               /\ last.ret.cell # last.pre.cell
        /\ (last.ret.cell = NoCell) <=> (\A q \in SearchNeighbours : cells[q].occupied)
        /\ symbionts[1] = last.pre
        /\ cells[last.pre.cell].symbiont = 1

SearchReturnsOpenNeighbourWitness ==
    /\ Searched
    /\ GridRows(cells) = 3 /\ GridCols(cells) = 3
    /\ last.pre.cell = <<0, 1>>
    /\ last.ret.cell = NoCell
    /\ \E q \in DOMAIN cells : ~cells[q].occupied

\* C28: the search answers "outside the grid" exactly when the parent's row is
\* the first or the last, some cell of the neighbourhood is unoccupied and the
\* border draw is below 3/8
OutsideOnlyFromBorderRow ==
    Searched =>
        ((last.ret.cell = OutsideCell) <=>
            /\ last.pre.cell[1] \in {0, GridRows(cells) - 1}
            /\ \E q \in SearchNeighbours : ~cells[q].occupied
            /\ RLt(last.d.p, <<3, 8>>))

OutsideOnlyFromBorderRowWitness ==
    /\ Searched
    /\ GridRows(cells) = 3
    /\ last.pre.cell[1] = 2
    /\ last.d.p = Q(0)
    /\ last.ret.cell = OutsideCell

----------------------------------------------------------------------------
(* An arrival at a full grid, checked under SpecArrival.                   *)

\* C29: a call of generateArrival with a resident count of rows x columns
\* creates no symbiont, raises no error, uses no identity and leaves the cells
\* and the symbionts as they were
FullGridDropsArrival ==
    [][(last'.op = "generateArrival" /\ numResident(cells) = NUM_ROWS * NUM_COLS) =>
           /\ last'.ref = 0
           /\ last'.d.num_symbionts = NUM_ROWS * NUM_COLS
           /\ err' = "none"
           /\ sym_count' = sym_count
           /\ cells' = cells
           /\ symbionts' = symbionts
           /\ heap' = heap
           /\ event_cnt' = event_cnt]_vars

FullGridDropsArrivalWitness ==
    /\ last.op = "generateArrival"
    /\ last.d.num_symbionts = NUM_ROWS * NUM_COLS
    /\ last.ref = 0
    /\ err = "none"
    /\ sym_count = NUM_ROWS * NUM_COLS
    /\ \A q \in Positions : cells[q].occupied

----------------------------------------------------------------------------
(* A handler called out of phase, checked under SpecDispatch.              *)

\* the step dispatches a handler of the cell cycle to a symbiont whose
\* previous event is not the one the handler expects
OutOfPhase ==
    \/ last'.op = "END_G0" /\ last'.pre.prev_event_type \notin {"ARRIVAL", "END_G1SG2M"}
    \/ last'.op = "END_G1SG2M" /\ last'.pre.prev_event_type # "END_G0"

\* C30: a handler of the cell cycle dispatched out of phase fails an
\* assertion: no child is made, no cell changes, no event is inserted, and the
\* symbiont keeps its previous event, its surplus, its divisions and the next
\* event it reported
WrongPhaseDispatchAborts ==
    [][OutOfPhase =>
           /\ err' = "AssertionError"
           /\ last'.child = 0
           /\ Len(symbionts') = Len(symbionts)
           /\ sym_count' = sym_count
           /\ cells' = cells
           /\ heap' = heap
           /\ event_cnt' = event_cnt
           /\ \A i \in 1 .. Len(symbionts) :
                  /\ symbionts'[i].prev_event_type = symbionts[i].prev_event_type
                  /\ symbionts'[i].prev_event_time = symbionts[i].prev_event_time
                  /\ symbionts'[i].photosynthate_surplus = symbionts[i].photosynthate_surplus
                  /\ symbionts'[i].num_divisions = symbionts[i].num_divisions
                  /\ symbionts'[i].next_event_time = symbionts[i].next_event_time
                  /\ symbionts'[i].next_event_type = symbionts[i].next_event_type]_vars

WrongPhaseDispatchAbortsWitness ==
    /\ last.op = "END_G0"
    /\ last.pre.prev_event_type = "END_G0"
    /\ err = "AssertionError"
    /\ symbionts[last.ref].prev_event_type = "END_G0"
    /\ Len(symbionts) = 1

----------------------------------------------------------------------------
(* Divisions and identities, checked under Spec.                           *)

\* C31: an end of G1SG2M handled for a symbiont adds one to its count of
\* divisions whatever the outcome of the mitosis, and the child starts with a
\* count of zero
DivisionCounted ==
    (last.op = "END_G1SG2M" /\ err = "none") =>
        /\ symbionts[last.ref].num_divisions = last.pre.num_divisions + 1
        /\ last.child # 0
        /\ symbionts[last.child].num_divisions = 0

DivisionCountedWitness ==
    /\ last.op = "END_G1SG2M"
    /\ err = "none"
    /\ last.status = "PARENT_EVICTED"
    /\ symbionts[last.ref].cell = NoCell
    /\ symbionts[last.ref].num_divisions = 1
    /\ symbionts[last.child].num_divisions = 0

\* C32: the symbionts of a run, in the order of their creation, have strictly
\* increasing identities, all below the count of identities given out
IdentitiesIncrease ==
    /\ \A i, j \in 1 .. Len(symbionts) : i < j => symbionts[i].id < symbionts[j].id
    /\ \A i \in 1 .. Len(symbionts) : symbionts[i].id < sym_count

IdentitiesIncreaseWitness ==
    /\ Len(symbionts) = 3
    /\ symbionts[2].how_arrived = "ARRIVED_VIA_DIVISION"
    /\ symbionts[2].cell = NoCell
    /\ symbionts[3].how_arrived = "ARRIVED_FROM_POOL"
    /\ symbionts[3].id = 2

----------------------------------------------------------------------------
(* The first events of a symbiont, checked under SpecSchedule.             *)

\* the balance projected to the end of the first G0: the surplus on arrival
\* plus the production less the demand of the cell over the drawn length
FirstG0Projection ==
    RAdd(last.pre.photosynthate_surplus,
         RMul(RSub(last.pre.production_rate, cells[last.pre.cell].demand), last.d.g0))

\* C33: when the balance projected to the end of the first G0 is not
\* negative, no digestion and no escape is scheduled and the end of G0 is at
\* the time of creation plus the drawn length
SurvivableG0SchedulesNoExit ==
    (last.op = "scheduleInitialEvents" /\ FirstG0Projection[1] >= 0) =>
        /\ err = "none"
        /\ symbionts[1].time_of_digestion = INFINITY
        /\ symbionts[1].time_of_escape = INFINITY
        /\ symbionts[1].time_of_next_end_g0 = RAdd(clock, last.d.g0)
        /\ symbionts[1].time_of_denouement = RAdd(clock, last.d.residence)

\* the scenario of the break-even symbiont
SurvivableG0SchedulesNoExitWitness ==
    /\ last.op = "scheduleInitialEvents"
    /\ clock = Q(0)
    /\ last.pre.production_rate = Q(1)
    /\ cells[last.pre.cell].demand = Q(1)
    /\ last.pre.mitotic_cost_rate = Q(0)
    /\ last.pre.photosynthate_surplus = Q(5)
    /\ last.d.g0 = Q(10)
    /\ FirstG0Projection = Q(5)
    /\ symbionts[1].time_of_digestion = INFINITY
    /\ symbionts[1].time_of_next_end_g0 = Q(10)

----------------------------------------------------------------------------
(* The order of the events of a symbiont, checked under Spec.              *)

\* the symbiont object i is in a cell that holds it
Resident(i) ==
    /\ symbionts[i].cell # NoCell
    /\ cells[symbionts[i].cell].symbiont = i

\* the same after the step
ResidentAfter(i) ==
    /\ symbionts'[i].cell # NoCell
    /\ cells'[symbionts'[i].cell].symbiont = i

TerminalTypes == {"ESCAPE", "DIGESTION", "DENOUEMENT"}

\* the step dispatches an event to a symbiont in the order of its life: in a
\* run that has not aborted, to a resident only, an end of G1SG2M after an end
\* of G0, an end of G0 after the arrival or an end of G1SG2M, and an exit whose
\* handler returns leaves it resident no more (one that raises aborts the run)
DispatchedInOrder ==
    last'.op \in {"END_G0", "END_G1SG2M"} \cup TerminalTypes =>
        /\ err = "none"
        /\ last'.ref \in 1 .. Len(symbionts)
        /\ Resident(last'.ref)
        /\ last'.pre = symbionts[last'.ref]
        /\ last'.op = "END_G1SG2M" => symbionts[last'.ref].prev_event_type = "END_G0"
        /\ last'.op = "END_G0" =>
               symbionts[last'.ref].prev_event_type \in {"ARRIVAL", "END_G1SG2M"}
        /\ (last'.op \in TerminalTypes /\ err' = "none") =>
               \A r \in {last'.ref} : ~ResidentAfter(r)

\* C34: every event is dispatched to a resident symbiont in the order of its
\* life (end of G0 after the arrival or an end of G1SG2M, end of G1SG2M after
\* an end of G0, then at most one exit), and a symbiont that is resident no
\* more never is again, so that nothing is dispatched to it
EventsFollowLifeCycle ==
    [][/\ DispatchedInOrder
       /\ \A i \in 1 .. Len(symbionts) : ~Resident(i) => ~ResidentAfter(i)]_vars

EventsFollowLifeCycleWitness ==
    /\ last.op = "DENOUEMENT"
    /\ err = "none"
    /\ last.pre.prev_event_type = "END_G0"
    /\ last.pre.num_divisions = 1
    /\ ~Resident(last.ref)

----------------------------------------------------------------------------
(* The balances after the split, checked under SpecSplit.                  *)

\* C35: after the split of a division the parent and the child, both in a
\* cell, have a surplus that is not negative, whatever the kind and the amount
\* of the mutation
SplitLeavesNoDebt ==
    last.op = "splitSurplus" =>
        \A i \in 1 .. Len(symbionts) :
            symbionts[i].cell # NoCell => symbionts[i].photosynthate_surplus[1] >= 0

----------------------------------------------------------------------------
(* The rates of a symbiont, checked under Spec.                            *)

\* C36: no step changes the production rate or the mitotic cost rate of a
\* symbiont that exists, whether it divides, moves to another cell or leaves
RatesFixedAtCreation ==
    [][\A i \in 1 .. Len(symbionts) :
           /\ symbionts'[i].production_rate = symbionts[i].production_rate
           /\ symbionts'[i].mitotic_cost_rate = symbionts[i].mitotic_cost_rate]_vars

\* a parent that moved to another row at its division, its child in its
\* place: it keeps the rate of its first row, which is not the rate an arrival
\* in its new row gets
RatesFixedAtCreationWitness ==
    /\ last.op = "END_G1SG2M"
    /\ err = "none"
    /\ last.status = "BOTH_STAY"
    /\ symbionts[last.ref].cell[1] # last.pre.cell[1]
    /\ symbionts[last.child].cell = last.pre.cell
    /\ symbionts[last.ref].production_rate = last.pre.production_rate
    /\ symbionts[last.ref].mitotic_cost_rate = last.pre.mitotic_cost_rate
    /\ symbionts[last.ref].production_rate
           # computeProductionRate(symbionts[last.ref], FALSE, Q(1))

----------------------------------------------------------------------------
(* The times a handler schedules, checked under Spec.                      *)

\* the event times the symbiont s holds
HeldTimes(s) ==
    {s.time_of_next_end_g0, s.time_of_next_end_g1sg2m, s.time_of_escape,
     s.time_of_digestion, s.time_of_denouement, s.next_event_time}

\* after an arrival or an end of a phase handled at the time of the clock, the
\* finite event times of the symbiont handled and of its child are not before
\* that time
ScheduledNotBeforeNow ==
    (last.op \in {"ARRIVAL", "END_G0", "END_G1SG2M"} /\ err = "none") =>
        \A i \in {last.ref, last.child} \ {0} :
            \A time \in HeldTimes(symbionts[i]) : IsInf(time) \/ RLe(clock, time)

\* C37: every event time a handler leaves to the symbiont it handles and to
\* the child it makes is at or after the time of the event handled, and the
\* times of the events dispatched never decrease
TimesNeverGoBack ==
    [][RLe(clock, clock') /\ ScheduledNotBeforeNow']_vars

----------------------------------------------------------------------------
(* Escape before digestion, checked under Spec.                            *)

\* a symbiont with a finite escape time has a finite digestion time not
\* before it, both before the finite ends of phase it holds, and its next
\* event is the escape or the departure
EscapeComesFirst(s) ==
    ~IsInf(s.time_of_escape) =>
        /\ ~IsInf(s.time_of_digestion)
        /\ RLe(s.time_of_escape, s.time_of_digestion)
        /\ \A phase_end \in {s.time_of_next_end_g0, s.time_of_next_end_g1sg2m} :
               IsInf(phase_end) \/ RLt(s.time_of_digestion, phase_end)
        /\ s.next_event_type \in {"ESCAPE", "DENOUEMENT"}

\* C38: every symbiont with a finite escape time has its digestion at or
\* after the escape and both before the ends of phase it holds, and no
\* digestion and no end of a phase is dispatched to such a symbiont
EscapePreemptsDigestion ==
    [][/\ \A i \in 1 .. Len(symbionts') : EscapeComesFirst(symbionts'[i])
       /\ last'.op \in {"DIGESTION", "END_G0", "END_G1SG2M"} =>
              IsInf(last'.pre.time_of_escape)]_vars

----------------------------------------------------------------------------
(* The occupants of the cells, checked under Spec.                         *)

\* the step replaces the symbiont object a held by a cell with the object b
Displaces(a, b) ==
    \E q \in Positions :
        /\ cells[q].symbiont = a
        /\ cells'[q].symbiont = b

\* C39: the symbiont a cell holds is replaced by another only at its own
\* division and by its own child, every other placement going into a cell
\* that holds nothing, and a cell is flagged occupied exactly when it holds a
\* symbiont
OccupantReplacedByChildOnly ==
    [][/\ \A a \in 1 .. Len(symbionts), b \in 1 .. Len(symbionts') :
              (a # b /\ Displaces(a, b)) =>
                  /\ last'.op = "END_G1SG2M"
                  /\ a = last'.ref
                  /\ b = last'.child
                  /\ symbionts'[b].parent_id = symbionts[a].id
       /\ \A q \in Positions : cells'[q].occupied <=> cells'[q].symbiont # 0]_vars

\* a child in the cell of its parent, the parent moved to a cell that held
\* nothing, and another symbiont arrived from the pool into the third
OccupantReplacedByChildOnlyWitness ==
    /\ last.op = "ARRIVAL"
    /\ last.ref = 3
    /\ err = "none"
    /\ \A q \in Positions : cells[q].occupied
    /\ symbionts[2].parent_id = symbionts[1].id
    /\ cells[symbionts[2].cell].symbiont = 2
    /\ symbionts[2].cell = <<0, 0>>
    /\ cells[<<1, 0>>].symbiont = 1

----------------------------------------------------------------------------
(* The balance at departure, checked under Spec.                           *)

\* the mitotic cost rate charged to a departure: that of the symbiont when it
\* departs between an end of G0 and the end of G1SG2M, none otherwise
DepartureCostRate ==
    IF last.pre.prev_event_type = "END_G0" THEN last.pre.mitotic_cost_rate ELSE Q(0)

\* C40: the surplus of a symbiont after its departure is its surplus at its
\* previous event plus the time elapsed times the production rate less the
\* demand of the cell less the mitotic cost rate, that rate counted when the
\* symbiont departs during G1SG2M and not when it departs during G0
DepartureChargesMitosis ==
    (last.op = "DENOUEMENT" /\ err = "none") =>
        symbionts[last.ref].photosynthate_surplus =
            RAdd(last.pre.photosynthate_surplus,
                 RMul(RSub(clock, last.pre.prev_event_time),
                      RSub(RSub(last.pre.production_rate, cells[last.pre.cell].demand),
                           DepartureCostRate)))

=============================================================================
